---- MODULE Spec2Model ----
(***************************************************************************)
(* Model of the Tango puzzle generator and game session.                   *)
(*   LevelGenerator, SeededRNG : src/js/generator.js lines 1-410           *)
(*   Game                      : src/js/game.js lines 324-670              *)
(*                                                                         *)
(* Representation choices:                                                 *)
(*  - a board is a function [0..N-1 -> [0..N-1 -> 0..2]] (0 Empty, 1 Sun,  *)
(*    2 Moon), indexed as board[r][c] like the JavaScript arrays;          *)
(*  - a constraint symbol is "=", "x" or "none" (JavaScript null);         *)
(*  - a 32-bit integer is a pair <<hi, lo>> of 16-bit halves, because the  *)
(*    model checker's integers are narrower than 2^32;                     *)
(*  - a seed string is the sequence of its character codes; <<>> stands    *)
(*    for the falsy seeds (null / omitted, and the empty string, which     *)
(*    `if (seed)` treats alike).                                           *)
(***************************************************************************)
EXTENDS Integers, Sequences, FiniteSets, TLC

(***************************************************************************)
(* Evaluation helper: F applied to the value of e, with e evaluated once   *)
(* (an operator argument is otherwise re-evaluated at each of its uses).   *)
(***************************************************************************)
Bind(F(_), e) ==
    LET image == {F(x) : x \in {e}}
    IN  CHOOSE res \in image : TRUE

(***************************************************************************)
(* 32-bit integer arithmetic on <<hi, lo>> pairs                           *)
(***************************************************************************)
Half == 256 * 256

RECURSIVE BitXor(_, _, _)
BitXor(a, b, n) ==
    IF n = 0 THEN 0
    ELSE ((a + b) % 2) + 2 * BitXor(a \div 2, b \div 2, n - 1)

RECURSIVE BitOr(_, _, _)
BitOr(a, b, n) ==
    IF n = 0 THEN 0
    ELSE (IF (a % 2) + (b % 2) > 0 THEN 1 ELSE 0)
         + 2 * BitOr(a \div 2, b \div 2, n - 1)

NibXor == [a \in 0..15 |-> [b \in 0..15 |-> BitXor(a, b, 4)]]
NibOr  == [a \in 0..15 |-> [b \in 0..15 |-> BitOr(a, b, 4)]]

Xor16(a, b) ==
      NibXor[a % 16][b % 16]
    + 16   * NibXor[(a \div 16) % 16][(b \div 16) % 16]
    + 256  * NibXor[(a \div 256) % 16][(b \div 256) % 16]
    + 4096 * NibXor[a \div 4096][b \div 4096]

Or16(a, b) ==
      NibOr[a % 16][b % 16]
    + 16   * NibOr[(a \div 16) % 16][(b \div 16) % 16]
    + 256  * NibOr[(a \div 256) % 16][(b \div 256) % 16]
    + 4096 * NibOr[a \div 4096][b \div 4096]

\* a ^ b
Xor32(a, b) == <<Xor16(a[1], b[1]), Xor16(a[2], b[2])>>
\* a | b
Or32(a, b) == <<Or16(a[1], b[1]), Or16(a[2], b[2])>>

RECURSIVE Pow2(_)
Pow2(k) == IF k = 0 THEN 1 ELSE 2 * Pow2(k - 1)

\* a >>> k, for 0 < k < 32
Shr32(a, k) ==
    IF k >= 16 THEN <<0, a[1] \div Pow2(k - 16)>>
    ELSE <<a[1] \div Pow2(k),
           (a[2] \div Pow2(k)) + (a[1] % Pow2(k)) * Pow2(16 - k)>>

\* a << k, for 0 < k < 16
Shl32(a, k) ==
    <<((a[1] % Pow2(16 - k)) * Pow2(k)) + (a[2] \div Pow2(16 - k)),
      (a[2] % Pow2(16 - k)) * Pow2(k)>>

\* (a + b) mod 2^32
Add32(a, b) ==
    LET lo == a[2] + b[2]
    IN  <<(a[1] + b[1] + (lo \div Half)) % Half, lo % Half>>

\* the full 32-bit product of two 16-bit numbers
Mul16(x, y) ==
    LET p0 == x * (y % 256)
        p1 == x * (y \div 256)
        s  == p0 + (p1 % 256) * 256
    IN  <<(s \div Half) + (p1 \div 256), s % Half>>

\* Math.imul(a, b): the low 32 bits of the product
Imul(a, b) ==
    LET ll == Mul16(a[2], b[2])
        hl == Mul16(a[1], b[2])
        lh == Mul16(a[2], b[1])
    IN  <<(ll[1] + hl[2] + lh[2]) % Half, ll[2]>>

\* a small non-negative number as a 32-bit integer
W(n) == <<n \div Half, n % Half>>

(***************************************************************************)
(* SeededRNG (generator.js 385-410)                                        *)
(***************************************************************************)
\* 1779033703, 3432918353, 2246822507, 3266489909 as <<hi, lo>>
HashInit == <<27145, 58983>>
HashMul  == <<52382, 11601>>
MixMul1  == <<34283, 51819>>
MixMul2  == <<49842, 44597>>

\* the loop of hashSeed: h after the characters str[i..]
RECURSIVE HashLoop(_, _, _)
HashLoop(h, str, i) ==
    IF i > Len(str) THEN h
    ELSE Bind(LAMBDA m :
                 Bind(LAMBDA h1 : HashLoop(h1, str, i + 1),
                      Or32(Shl32(m, 13), Shr32(m, 19))),
              Imul(Xor32(h, W(str[i])), HashMul))

\* hashSeed(str): the h captured by the returned closure
hashSeed(str) == HashLoop(Xor32(HashInit, W(Len(str))), str, 1)

\* one call of the closure this.state(): the new h, which is also returned
StateCall(h) ==
    Bind(LAMBDA h1 :
        Bind(LAMBDA h2 : Xor32(h2, Shr32(h2, 16)),
             Imul(Xor32(h1, Shr32(h1, 13)), MixMul2)),
        Imul(Xor32(h, Shr32(h, 16)), MixMul1))

\* new SeededRNG(seed)
NewSeededRNG(seed) == [set |-> TRUE, seed |-> seed, h |-> hashSeed(seed)]

\* this.rng = null
NullRng == [set |-> FALSE, seed |-> <<>>, h |-> <<0, 0>>]

\* next(): the numerator of the returned float (the float is value / 2^32)
\* and the generator after the call
SeededNext(gen) ==
    Bind(LAMBDA t0 :
        Bind(LAMBDA t1 :
            Bind(LAMBDA t2 : [value |-> Xor32(t2, Shr32(t2, 14)),
                              rng   |-> [gen EXCEPT !.h = t0]],
                 Xor32(t1, Add32(t1, Imul(Xor32(t1, Shr32(t1, 7)),
                                          Or32(t1, W(61)))))),
            Imul(Xor32(t0, Shr32(t0, 15)), Or32(t0, W(1)))),
        StateCall(gen.h))

(***************************************************************************)
(* Bounds of the model                                                     *)
(***************************************************************************)
\* Math.random() is modelled as an environment stream over the values
\* k / RandDen, k in 0..RandDen-1: the engine holds a position, arbitrary
\* when the page loads, that advances by one at each draw.
RandDen == 3

(***************************************************************************)
(* The random source: LevelGenerator.random and shuffle                    *)
(***************************************************************************)
MathRandomStates == 0..(RandDen - 1)

\* Math.random(): numerator over 2^32 of the value drawn, and the engine after
MathRandom(m) ==
    [value |-> <<(m * Half) \div RandDen, 0>>,
     math  |-> (m + 1) % RandDen]

\* random(): src is [rng, math], the generator's this.rng and the engine
random(src) ==
    IF src.rng.set
    THEN LET n == SeededNext(src.rng)
         IN  [value |-> n.value, src |-> [src EXCEPT !.rng = n.rng]]
    ELSE LET n == MathRandom(src.math)
         IN  [value |-> n.value, src |-> [src EXCEPT !.math = n.math]]

\* Math.floor(x * n) for the float x = value / 2^32 and a small integer n
FloorMul(value, n) == (value[1] * n + ((value[2] * n) \div Half)) \div Half

\* a variant of Swap that copies array[j] to array[i] without writing back
SwapCopy(array, i, j) == [array EXCEPT ![i] = array[j]]

Swap(array, i, j) == [array EXCEPT ![i] = array[j], ![j] = array[i]]

\* one iteration of the loop of shuffle at index i (0-based, as in the
\* source): st holds the array and the random source
ShuffleIteration(st, i) ==
    Bind(LAMBDA d : [array |-> Swap(st.array, i + 1, FloorMul(d.value, i + 1) + 1),
                     src   |-> d.src],
         random(st.src))

\* the iterations of the loop for i = hi down to lo, the range being halved
\* to keep the evaluation shallow
RECURSIVE ShuffleLoop(_, _, _)
ShuffleLoop(st, hi, lo) ==
    IF hi < lo THEN st
    ELSE IF hi = lo THEN ShuffleIteration(st, hi)
    ELSE LET mid == (hi + lo + 1) \div 2
         IN  Bind(LAMBDA upper : ShuffleLoop(upper, mid - 1, lo),
                  ShuffleLoop(st, hi, mid))

\* shuffle(array): for (i = length - 1; i > 0; i--)
shuffle(array, src) ==
    ShuffleLoop([array |-> array, src |-> src], Len(array) - 1, 1)

(***************************************************************************)
(* Boards                                                                  *)
(***************************************************************************)
EMPTY == 0
SUN   == 1
MOON  == 2
EQUAL == "="
CROSS == "x"
NONE  == "none"

createEmptyBoard(size) == [r \in 0..(size - 1) |-> [c \in 0..(size - 1) |-> 0]]

Count(S) == Cardinality(S)

\* variant of isValidPlacement that allows a piece one time fewer in a row
isValidPlacementFewer(board, row, col, size, piece) ==
    /\ ~(col >= 2 /\ board[row][col - 1] = piece /\ board[row][col - 2] = piece)
    /\ ~(row >= 2 /\ board[row - 1][col] = piece /\ board[row - 2][col] = piece)
    /\ ~(2 * Count({c \in 0..(col - 1) : board[row][c] = piece}) + 2 >= size)
    /\ ~(2 * Count({r \in 0..(row - 1) : board[r][col] = piece}) >= size)
    /\ ~(/\ col = size - 1
         /\ \E r \in 0..(row - 1) :
               \A c \in 0..(size - 1) :
                  board[r][c] = (IF c = col THEN piece ELSE board[row][c]))

\* variant of isValidPlacement without the duplicate-row check of lines
\* 245-259
isValidPlacementNoRowCheck(board, row, col, size, piece) ==
    /\ ~(col >= 2 /\ board[row][col - 1] = piece /\ board[row][col - 2] = piece)
    /\ ~(row >= 2 /\ board[row - 1][col] = piece /\ board[row - 2][col] = piece)
    /\ ~(2 * Count({c \in 0..(col - 1) : board[row][c] = piece}) >= size)
    /\ ~(2 * Count({r \in 0..(row - 1) : board[r][col] = piece}) >= size)

\* isValidPlacement(board, row, col, size, piece)
isValidPlacement(board, row, col, size, piece) ==
    /\ ~(col >= 2 /\ board[row][col - 1] = piece /\ board[row][col - 2] = piece)
    /\ ~(row >= 2 /\ board[row - 1][col] = piece /\ board[row - 2][col] = piece)
    /\ ~(2 * Count({c \in 0..(col - 1) : board[row][c] = piece}) >= size)
    /\ ~(2 * Count({r \in 0..(row - 1) : board[r][col] = piece}) >= size)
    /\ ~(/\ col = size - 1
         /\ \E r \in 0..(row - 1) :
               \A c \in 0..(size - 1) :
                  board[r][c] = (IF c = col THEN piece ELSE board[row][c]))

\* a variant of PieceOrder that tries the sun first at every cell
PieceOrderSunFirst(row, col, size) == <<SUN, MOON>>

\* the candidate order at (row, col): parity of the cell index
PieceOrder(row, col, size) ==
    IF (row * size + col) % 2 = 0 THEN <<SUN, MOON>> ELSE <<MOON, SUN>>

\* fillBoard (generator.js 199-220) as an explicit-stack machine.  f holds
\*   board : the array being filled,
\*   stack : for each active call above the current one, the index (1 or 2)
\*           in its candidate order of the piece it has placed; the current
\*           call is the one at cell Len(stack) in row-major order,
\*   try   : the index of the candidate the current call tests next,
\*   state : "run", or "ok" / "fail" once the outermost call has returned.
FillStart(size) ==
    [board |-> createEmptyBoard(size), stack |-> <<>>, try |-> 1, state |-> "run"]

\* a variant of fillBoard whose caller does not clear its cell when the
\* recursive call has returned false
fillBoardNoClear(f, size) ==
    LET pos == Len(f.stack)
        row == pos \div size
        col == pos % size
    IN  IF row = size THEN [f EXCEPT !.state = "ok"]
        ELSE IF f.try > 2
        THEN IF pos = 0 THEN [f EXCEPT !.state = "fail"]
             ELSE [f EXCEPT !.try = f.stack[pos] + 1,
                            !.stack = SubSeq(f.stack, 1, pos - 1)]
        ELSE IF isValidPlacement(f.board, row, col, size,
                                 PieceOrder(row, col, size)[f.try])
        THEN [f EXCEPT !.board[row][col] = PieceOrder(row, col, size)[f.try],
                       !.stack = Append(f.stack, f.try),
                       !.try = 1]
        ELSE [f EXCEPT !.try = f.try + 1]

\* one step of the machine: the base case, a candidate test (with the
\* placement and the recursive call when it is valid), or a return of false
\* to the caller, which clears its cell and moves to its next candidate
fillBoard(f, size) ==
    LET pos == Len(f.stack)
        row == pos \div size
        col == pos % size
    IN  IF row = size THEN [f EXCEPT !.state = "ok"]
        ELSE IF f.try > 2
        THEN IF pos = 0 THEN [f EXCEPT !.state = "fail"]
             ELSE [f EXCEPT !.board[(pos - 1) \div size][(pos - 1) % size] = 0,
                            !.try = f.stack[pos] + 1,
                            !.stack = SubSeq(f.stack, 1, pos - 1)]
        ELSE IF isValidPlacement(f.board, row, col, size,
                                 PieceOrder(row, col, size)[f.try])
        THEN [f EXCEPT !.board[row][col] = PieceOrder(row, col, size)[f.try],
                       !.stack = Append(f.stack, f.try),
                       !.try = 1]
        ELSE [f EXCEPT !.try = f.try + 1]

(***************************************************************************)
(* LogicalDeductionEngine: LevelGenerator.findLogicalMove, solveLogically  *)
(***************************************************************************)
Min(S) == CHOOSE x \in S : \A y \in S : x <= y

\* "no move" (JavaScript null); a move is [r, c, val]
NoMove == [r |-> 0 - 1, c |-> 0 - 1, val |-> 0]

getOpposite(val) == IF val = 1 THEN 2 ELSE 1

isValidPos(size, r, c) == r >= 0 /\ r < size /\ c >= 0 /\ c < size

\* checkLine of findLogicalMove: the forced value, or 0 for null
checkLine(board, size, r, c, dr1, dc1, dr2, dc2) ==
    IF ~isValidPos(size, r + dr1, c + dc1) \/ ~isValidPos(size, r + dr2, c + dc2)
    THEN 0
    ELSE LET v1 == board[r + dr1][c + dc1]
             v2 == board[r + dr2][c + dc2]
         IN  IF v1 # 0 /\ v1 = v2 THEN getOpposite(v1) ELSE 0

\* the six neighbour pairs, in the order the source tests them
LineOffsets ==
    << <<0, 0 - 1, 0, 0 - 2>>, <<0, 1, 0, 2>>, <<0, 0 - 1, 0, 1>>,
       <<0 - 1, 0, 0 - 2, 0>>, <<1, 0, 2, 0>>, <<0 - 1, 0, 1, 0>> >>

LineVal(board, size, r, c, k) ==
    checkLine(board, size, r, c,
              LineOffsets[k][1], LineOffsets[k][2], LineOffsets[k][3], LineOffsets[k][4])

\* the value the run-avoidance tests force on (r, c): the first non-null one
RunVal(board, size, r, c) ==
    LET hits == {k \in 1..6 : LineVal(board, size, r, c, k) # 0}
    IN  IF hits = {} THEN 0 ELSE LineVal(board, size, r, c, Min(hits))

\* first loop nest (generator.js 295-313)
RunMove(board, size) ==
    LET hits == {k \in 0..(size * size - 1) :
                    /\ board[k \div size][k % size] = 0
                    /\ RunVal(board, size, k \div size, k % size) # 0}
    IN  IF hits = {} THEN NoMove
        ELSE LET k == Min(hits)
             IN  [r |-> k \div size, c |-> k % size,
                  val |-> RunVal(board, size, k \div size, k % size)]

\* a variant of SymVal that reads every symbol as '='
SymValSame(sym, v) == v

\* the value a symbol forces next to a filled cell holding v
SymVal(sym, v) == IF sym = EQUAL THEN v ELSE getOpposite(v)

\* a variant of Forcing that does not require the other side to be empty
ForcingFilled(sym, v1, v2) ==
    /\ sym \in {EQUAL, CROSS}
    /\ v1 # 0 \/ v2 # 0

\* a constraint slot with a symbol and exactly one side filled
Forcing(sym, v1, v2) ==
    /\ sym \in {EQUAL, CROSS}
    /\ (v1 # 0 /\ v2 = 0) \/ (v1 = 0 /\ v2 # 0)

\* second loop nest: horizontal constraints (generator.js 315-330)
HConstraintMove(board, size, constraints) ==
    LET w == size - 1
        hits == {k \in 0..(size * w - 1) :
                    Forcing(constraints.h[k \div w][k % w],
                            board[k \div w][k % w], board[k \div w][(k % w) + 1])}
    IN  IF hits = {} THEN NoMove
        ELSE LET k == Min(hits)
                 r == k \div w
                 c == k % w
                 sym == constraints.h[r][c]
                 v1 == board[r][c]
                 v2 == board[r][c + 1]
             IN  IF v1 # 0
                 THEN [r |-> r, c |-> c + 1, val |-> SymVal(sym, v1)]
                 ELSE [r |-> r, c |-> c, val |-> SymVal(sym, v2)]

\* third loop nest: vertical constraints (generator.js 331-346)
VConstraintMove(board, size, constraints) ==
    LET hits == {k \in 0..((size - 1) * size - 1) :
                    Forcing(constraints.v[k \div size][k % size],
                            board[k \div size][k % size],
                            board[(k \div size) + 1][k % size])}
    IN  IF hits = {} THEN NoMove
        ELSE LET k == Min(hits)
                 r == k \div size
                 c == k % size
                 sym == constraints.v[r][c]
                 v1 == board[r][c]
                 v2 == board[r + 1][c]
             IN  IF v1 # 0
                 THEN [r |-> r + 1, c |-> c, val |-> SymVal(sym, v1)]
                 ELSE [r |-> r, c |-> c, val |-> SymVal(sym, v2)]

\* a line with an empty cell that already holds size/2 of one piece
Saturated(line, size) ==
    /\ \E i \in 0..(size - 1) : line[i] = 0
    /\ \/ 2 * Count({i \in 0..(size - 1) : line[i] = 1}) = size
       \/ 2 * Count({i \in 0..(size - 1) : line[i] = 2}) = size

\* a variant of FillVal that fills with the piece the line is saturated with
FillValSame(line, size) ==
    IF 2 * Count({i \in 0..(size - 1) : line[i] = 1}) = size THEN 1 ELSE 2

\* the piece that fills a saturated line: suns are tested first
FillVal(line, size) ==
    IF 2 * Count({i \in 0..(size - 1) : line[i] = 1}) = size THEN 2 ELSE 1

FirstEmpty(line, size) == Min({i \in 0..(size - 1) : line[i] = 0})

Column(board, size, c) == [r \in 0..(size - 1) |-> board[r][c]]

\* fourth loop: rows (generator.js 348-359)
RowBalanceMove(board, size) ==
    LET hits == {r \in 0..(size - 1) : Saturated(board[r], size)}
    IN  IF hits = {} THEN NoMove
        ELSE LET r == Min(hits)
             IN  [r |-> r, c |-> FirstEmpty(board[r], size),
                  val |-> FillVal(board[r], size)]

\* fifth loop: columns (generator.js 360-371)
ColBalanceMove(board, size) ==
    LET hits == {c \in 0..(size - 1) : Saturated(Column(board, size, c), size)}
    IN  IF hits = {} THEN NoMove
        ELSE LET c == Min(hits)
             IN  [r |-> FirstEmpty(Column(board, size, c), size), c |-> c,
                  val |-> FillVal(Column(board, size, c), size)]

\* move if it is one, else the value of the next loop nest
OrElse(move, next) == IF move # NoMove THEN move ELSE next

\* a variant of findLogicalMove that scans the horizontal constraints before
\* the runs
findLogicalMoveConstraintsFirst(board, size, constraints) ==
    Bind(LAMBDA m2 : OrElse(m2,
      Bind(LAMBDA m1 : OrElse(m1,
        Bind(LAMBDA m3 : OrElse(m3,
          Bind(LAMBDA m4 : OrElse(m4, ColBalanceMove(board, size)),
               RowBalanceMove(board, size))),
          VConstraintMove(board, size, constraints))),
        RunMove(board, size))),
      HConstraintMove(board, size, constraints))

\* a variant of findLogicalMove that has the run-avoidance rule only
findLogicalMoveRunsOnly(board, size, constraints) == RunMove(board, size)

findLogicalMove(board, size, constraints) ==
    Bind(LAMBDA b :
        Bind(LAMBDA m1 : OrElse(m1,
          Bind(LAMBDA m2 : OrElse(m2,
            Bind(LAMBDA m3 : OrElse(m3,
              Bind(LAMBDA m4 : OrElse(m4, ColBalanceMove(b, size)),
                   RowBalanceMove(b, size))),
              VConstraintMove(b, size, constraints))),
            HConstraintMove(b, size, constraints))),
          RunMove(b, size)),
        board)

\* The moves of all the return statements of findLogicalMove, each taken as
\* if the scan reached it: the forced moves available on the board.
\* First loop nest (generator.js 295-313): an empty cell and a neighbour pair
RunMoves(board, size) ==
    {[r |-> q[1] \div size, c |-> q[1] % size,
      val |-> LineVal(board, size, q[1] \div size, q[1] % size, q[2])] :
        q \in {x \in (0..(size * size - 1)) \X (1..6) :
                   /\ board[x[1] \div size][x[1] % size] = 0
                   /\ LineVal(board, size, x[1] \div size, x[1] % size, x[2]) # 0}}

\* the move of the horizontal slot (r, c) (generator.js 322-328)
HSlotMove(board, constraints, r, c) ==
    IF board[r][c] # 0
    THEN [r |-> r, c |-> c + 1, val |-> SymVal(constraints.h[r][c], board[r][c])]
    ELSE [r |-> r, c |-> c, val |-> SymVal(constraints.h[r][c], board[r][c + 1])]

\* the move of the vertical slot (r, c) (generator.js 338-344)
VSlotMove(board, constraints, r, c) ==
    IF board[r][c] # 0
    THEN [r |-> r + 1, c |-> c, val |-> SymVal(constraints.v[r][c], board[r][c])]
    ELSE [r |-> r, c |-> c, val |-> SymVal(constraints.v[r][c], board[r + 1][c])]

HConstraintMoves(board, size, constraints) ==
    {HSlotMove(board, constraints, k \div (size - 1), k % (size - 1)) :
        k \in {x \in 0..(size * (size - 1) - 1) :
                   Forcing(constraints.h[x \div (size - 1)][x % (size - 1)],
                           board[x \div (size - 1)][x % (size - 1)],
                           board[x \div (size - 1)][(x % (size - 1)) + 1])}}

VConstraintMoves(board, size, constraints) ==
    {VSlotMove(board, constraints, k \div size, k % size) :
        k \in {x \in 0..((size - 1) * size - 1) :
                   Forcing(constraints.v[x \div size][x % size],
                           board[x \div size][x % size],
                           board[(x \div size) + 1][x % size])}}

\* fourth and fifth loops (generator.js 348-371): the first empty cell of a
\* line that holds size / 2 pieces of one kind
RowBalanceMoves(board, size) ==
    {[r |-> r, c |-> FirstEmpty(board[r], size), val |-> FillVal(board[r], size)] :
        r \in {x \in 0..(size - 1) : Saturated(board[x], size)}}

ColBalanceMoves(board, size) ==
    {[r |-> FirstEmpty(Column(board, size, c), size), c |-> c,
      val |-> FillVal(Column(board, size, c), size)] :
        c \in {x \in 0..(size - 1) : Saturated(Column(board, size, x), size)}}

ForcedMoves(board, size, constraints) ==
    RunMoves(board, size)
    \cup HConstraintMoves(board, size, constraints)
    \cup VConstraintMoves(board, size, constraints)
    \cup RowBalanceMoves(board, size)
    \cup ColBalanceMoves(board, size)

\* board[move.r][move.c] = move.val (generator.js 270)
ApplyMove(board, move) == [board EXCEPT ![move.r][move.c] = move.val]

IsFull(board, size) ==
    \A r \in 0..(size - 1) : \A c \in 0..(size - 1) : board[r][c] # 0

\* one iteration of the while loop of solveLogically; st holds the array
\* and the flag `changed` (an iteration is not entered once it is false)
SolveIteration(st, size, constraints) ==
    IF ~st.changed THEN st
    ELSE Bind(LAMBDA move :
                 IF move # NoMove
                 THEN [board |-> [st.board EXCEPT ![move.r][move.c] = move.val],
                       changed |-> TRUE]
                 ELSE [board |-> st.board, changed |-> FALSE],
              findLogicalMove(st.board, size, constraints))

\* n iterations of the loop, the count being halved to keep the evaluation
\* shallow
RECURSIVE SolveLoop(_, _, _, _)
SolveLoop(st, size, constraints, n) ==
    IF n <= 1 THEN SolveIteration(st, size, constraints)
    ELSE Bind(LAMBDA half : SolveLoop(half, size, constraints, n - (n \div 2)),
              SolveLoop(st, size, constraints, n \div 2))

\* solveLogically(board, size, constraints): the array as the call leaves
\* it and the value returned.  The loop is run for size * size + 1
\* iterations, enough for it to exit whenever every move fills an empty
\* cell; `exited` tells that it has.
solveLogically(board, size, constraints) ==
    Bind(LAMBDA st : [board  |-> st.board,
                      solved |-> IsFull(st.board, size),
                      exited |-> ~st.changed],
         SolveLoop([board |-> board, changed |-> TRUE], size, constraints,
                   size * size + 1))

(***************************************************************************)
(* LevelGenerator.generate (generator.js 24-188)                           *)
(***************************************************************************)
\* difficultySettings, in thousandths: the source's fractions 0.06, 0.03,
\* 0.015, 0.01 and 0.005 are exact multiples of 1/1000, and for the sizes
\* modelled Math.ceil of the floating-point product equals the integer ceiling
difficultySettings(difficulty) ==
    CASE difficulty = "hard"   -> [constraintsKeep |-> 30, cellsKeep |-> 15]
      [] difficulty = "expert" -> [constraintsKeep |-> 10, cellsKeep |-> 5]
      [] OTHER                 -> [constraintsKeep |-> 60, cellsKeep |-> 30]

\* Math.ceil(n * keep) for keep given in thousandths
CeilKeep(n, keep) == (n * keep + 999) \div 1000

\* a variant of deriveConstraints that compares each cell with itself
deriveConstraintsSelf(solution, size) ==
    [h |-> [r \in 0..(size - 1) |-> [c \in 0..(size - 2) |->
               IF solution[r][c] = solution[r][c] THEN EQUAL ELSE CROSS]],
     v |-> [r \in 0..(size - 2) |-> [c \in 0..(size - 1) |->
               IF solution[r][c] = solution[r][c] THEN EQUAL ELSE CROSS]]]

\* step 2: the maximal constraint grids of a solution
deriveConstraints(solution, size) ==
    [h |-> [r \in 0..(size - 1) |-> [c \in 0..(size - 2) |->
               IF solution[r][c] = solution[r][c + 1] THEN EQUAL ELSE CROSS]],
     v |-> [r \in 0..(size - 2) |-> [c \in 0..(size - 1) |->
               IF solution[r][c] = solution[r + 1][c] THEN EQUAL ELSE CROSS]]]

\* step 4: the removable items in the order they are pushed
ConstraintItems(size) ==
    [k \in 1..(size * (size - 1)) |->
        [type |-> "h", r |-> (k - 1) \div (size - 1), c |-> (k - 1) % (size - 1)]]
    \o
    [k \in 1..((size - 1) * size) |->
        [type |-> "v", r |-> (k - 1) \div size, c |-> (k - 1) % size]]

CellItems(size) ==
    [k \in 1..(size * size) |->
        [type |-> "cell", r |-> (k - 1) \div size, c |-> (k - 1) % size]]

\* the locals of a generate call that has not started, or has returned
IdleGen ==
    [pc |-> "idle", size |-> 0, difficulty |-> "medium",
     fill |-> FillStart(0),
     solution |-> <<>>, constraints |-> <<>>,
     puzzle |-> <<>>, items |-> <<>>, cells |-> <<>>, i |-> 0,
     totalConstraints |-> 0, targetConstraints |-> 0, targetCells |-> 0,
     currentConstraints |-> 0, currentCells |-> 0]

\* variant of the entry of generate that ignores the seed argument
EnterRngUnseeded(seed) == NullRng

\* generator.js 24-30: the random source the call works with
EnterRng(seed) == IF seed # <<>> THEN NewSeededRNG(seed) ELSE NullRng

\* a variant of the entry of generate whose search starts with the second
\* candidate when the difficulty is hard
GenerateEnterByDifficulty(size, difficulty) ==
    [IdleGen EXCEPT !.pc = "fill", !.size = size, !.difficulty = difficulty,
                    !.fill = [FillStart(size) EXCEPT
                                !.try = IF difficulty = "hard" THEN 2 ELSE 1]]

\* generator.js 24-42: the arguments are bound, fillBoard is about to run
GenerateEnter(size, difficulty) ==
    [IdleGen EXCEPT !.pc = "fill", !.size = size, !.difficulty = difficulty,
                    !.fill = FillStart(size)]

\* generator.js 41-45: a step of fillBoard, and its outcome once it returns
FillIteration(g0) ==
    LET f == fillBoard(g0.fill, g0.size)
    IN  [g0 EXCEPT !.fill = f,
                   !.pc = CASE f.state = "ok"   -> "shuffle"
                            [] f.state = "fail" -> "failed"
                            [] OTHER            -> "fill"]

\* generator.js 47-113: from the constraint derivation to the entry of the
\* first reduction loop.  src is the random source (this.rng and the
\* engine); the result holds the locals and the source after both shuffles.
GenerateBuild(g0, src) ==
    LET size == g0.size
        settings == difficultySettings(g0.difficulty)
        solution == g0.fill.board
        sh1 == shuffle(ConstraintItems(size), src)
        sh2 == shuffle(CellItems(size), sh1.src)
        total == size * (size - 1) + (size - 1) * size
    IN  [g |-> [g0 EXCEPT
                  !.pc = "constraints",
                  !.solution = solution,
                  !.constraints = deriveConstraints(solution, size),
                  !.puzzle = solution,
                  !.items = sh1.array, !.cells = sh2.array, !.i = 1,
                  !.totalConstraints = total,
                  !.targetConstraints = CeilKeep(total, settings.constraintsKeep),
                  !.targetCells = CeilKeep(size * size, settings.cellsKeep),
                  !.currentConstraints = total,
                  !.currentCells = size * size],
         src |-> sh2.src]

\* a variant of ClearConstraint that writes '=' on the slot
ClearConstraintEqual(constraints, item) ==
    IF item.type = "h"
    THEN [constraints EXCEPT !.h[item.r][item.c] = EQUAL]
    ELSE [constraints EXCEPT !.v[item.r][item.c] = EQUAL]

ClearConstraint(constraints, item) ==
    IF item.type = "h"
    THEN [constraints EXCEPT !.h[item.r][item.c] = NONE]
    ELSE [constraints EXCEPT !.v[item.r][item.c] = NONE]

\* variant of the first pass whose loop stops below the target (< for <=)
ConstraintIterationBelow(loc) ==
    IF loc.i > Len(loc.items) \/ loc.currentConstraints < loc.targetConstraints
    THEN [loc EXCEPT !.pc = "cells", !.i = 1]
    ELSE LET item == loc.items[loc.i]
             tentative == ClearConstraint(loc.constraints, item)
             solvable == solveLogically(loc.puzzle, loc.size, tentative).solved
         IN  IF solvable
             THEN [loc EXCEPT !.constraints = tentative,
                            !.currentConstraints = @ - 1, !.i = @ + 1]
             ELSE [loc EXCEPT !.i = @ + 1]

\* variant of the first pass that clears the cell candidate of the same
\* index together with the constraint
ConstraintIterationWithCell(loc) ==
    IF loc.i > Len(loc.items) \/ loc.currentConstraints <= loc.targetConstraints
    THEN [loc EXCEPT !.pc = "cells", !.i = 1]
    ELSE LET item == loc.items[loc.i]
             cell == loc.cells[((loc.i - 1) % Len(loc.cells)) + 1]
             tentative == ClearConstraint(loc.constraints, item)
             cleared == [loc.puzzle EXCEPT ![cell.r][cell.c] = 0]
             solvable == solveLogically(cleared, loc.size, tentative).solved
         IN  IF solvable
             THEN [loc EXCEPT !.constraints = tentative, !.puzzle = cleared,
                            !.currentConstraints = @ - 1, !.i = @ + 1]
             ELSE [loc EXCEPT !.i = @ + 1]

\* variant of the first pass that tests a removal on an empty board instead
\* of the clue board
ConstraintIterationOnEmpty(loc) ==
    IF loc.i > Len(loc.items) \/ loc.currentConstraints <= loc.targetConstraints
    THEN [loc EXCEPT !.pc = "cells", !.i = 1]
    ELSE LET item == loc.items[loc.i]
             tentative == ClearConstraint(loc.constraints, item)
             solvable == solveLogically(createEmptyBoard(loc.size), loc.size,
                                        tentative).solved
         IN  IF solvable
             THEN [loc EXCEPT !.constraints = tentative,
                            !.currentConstraints = @ - 1, !.i = @ + 1]
             ELSE [loc EXCEPT !.i = @ + 1]

\* generator.js 116-143: one iteration of the first pass (or its exit)
ConstraintIteration(loc) ==
    IF loc.i > Len(loc.items) \/ loc.currentConstraints <= loc.targetConstraints
    THEN [loc EXCEPT !.pc = "cells", !.i = 1]
    ELSE LET item == loc.items[loc.i]
             tentative == ClearConstraint(loc.constraints, item)
             solvable == solveLogically(loc.puzzle, loc.size, tentative).solved
         IN  IF solvable
             THEN [loc EXCEPT !.constraints = tentative,
                            !.currentConstraints = @ - 1, !.i = @ + 1]
             ELSE [loc EXCEPT !.i = @ + 1]

\* variant of the second pass that stops after the first half of the
\* candidates
CellIterationHalf(loc) ==
    IF 2 * loc.i > Len(loc.cells) \/ loc.currentCells <= loc.targetCells
    THEN [loc EXCEPT !.pc = "validate"]
    ELSE LET item == loc.cells[loc.i]
             tentative == [loc.puzzle EXCEPT ![item.r][item.c] = 0]
             solvable == solveLogically(tentative, loc.size, loc.constraints).solved
         IN  IF solvable
             THEN [loc EXCEPT !.puzzle = tentative,
                            !.currentCells = @ - 1, !.i = @ + 1]
             ELSE [loc EXCEPT !.i = @ + 1]

\* variant of the second pass that runs the solver on the clue board itself
\* instead of a copy
CellIterationShared(loc) ==
    IF loc.i > Len(loc.cells) \/ loc.currentCells <= loc.targetCells
    THEN [loc EXCEPT !.pc = "validate"]
    ELSE LET item == loc.cells[loc.i]
             tentative == [loc.puzzle EXCEPT ![item.r][item.c] = 0]
             out == solveLogically(tentative, loc.size, loc.constraints)
         IN  IF out.solved
             THEN [loc EXCEPT !.puzzle = [out.board EXCEPT ![item.r][item.c] = 0],
                            !.currentCells = @ - 1, !.i = @ + 1]
             ELSE [loc EXCEPT !.puzzle = [out.board EXCEPT ![item.r][item.c] =
                                                           loc.puzzle[item.r][item.c]],
                            !.i = @ + 1]

\* variant of the second pass that keeps a removal without restoring the
\* cell when the solver fails
CellIterationNoRestore(loc) ==
    IF loc.i > Len(loc.cells) \/ loc.currentCells <= loc.targetCells
    THEN [loc EXCEPT !.pc = "validate"]
    ELSE LET item == loc.cells[loc.i]
             tentative == [loc.puzzle EXCEPT ![item.r][item.c] = 0]
             solvable == solveLogically(tentative, loc.size, loc.constraints).solved
         IN  IF solvable
             THEN [loc EXCEPT !.puzzle = tentative,
                            !.currentCells = @ - 1, !.i = @ + 1]
             ELSE [loc EXCEPT !.puzzle = tentative, !.i = @ + 1]

\* generator.js 146-163: one iteration of the second pass (or its exit)
CellIteration(loc) ==
    IF loc.i > Len(loc.cells) \/ loc.currentCells <= loc.targetCells
    THEN [loc EXCEPT !.pc = "validate"]
    ELSE LET item == loc.cells[loc.i]
             tentative == [loc.puzzle EXCEPT ![item.r][item.c] = 0]
             solvable == solveLogically(tentative, loc.size, loc.constraints).solved
         IN  IF solvable
             THEN [loc EXCEPT !.puzzle = tentative,
                            !.currentCells = @ - 1, !.i = @ + 1]
             ELSE [loc EXCEPT !.i = @ + 1]

\* generator.js 165-180: two solution rows are identical
HasDuplicateRows(solution, size) ==
    \E r1 \in 0..(size - 1) : \E r2 \in (r1 + 1)..(size - 1) :
        \A c \in 0..(size - 1) : solution[r1][c] = solution[r2][c]

\* the value generate returns; null is the record with isNull
NullLevel ==
    [isNull |-> TRUE, size |-> 0, solution |-> <<>>, initialBoard |-> <<>>,
     constraints |-> <<>>, seed |-> <<>>]

\* variant of the return statement that reports no seed
GenerateReturnNoSeed(loc, source) ==
    IF loc.pc = "failed" \/ HasDuplicateRows(loc.solution, loc.size) THEN NullLevel
    ELSE [isNull |-> FALSE, size |-> loc.size, solution |-> loc.solution,
          initialBoard |-> loc.puzzle, constraints |-> loc.constraints,
          seed |-> <<>>]

\* generator.js 165-187: the final validation and the returned object
\* (size is not a field of the object: it is kept to read the boards)
GenerateReturn(loc, source) ==
    IF loc.pc = "failed" \/ HasDuplicateRows(loc.solution, loc.size) THEN NullLevel
    ELSE [isNull |-> FALSE, size |-> loc.size, solution |-> loc.solution,
          initialBoard |-> loc.puzzle, constraints |-> loc.constraints,
          seed |-> IF source.set THEN source.seed ELSE <<>>]

\* one step of a generate call; st holds the locals and the random source
GenerateStep(st) ==
    CASE st.g.pc = "fill"        -> [g |-> FillIteration(st.g), src |-> st.src]
      [] st.g.pc = "shuffle"     -> GenerateBuild(st.g, st.src)
      [] st.g.pc = "constraints" -> [g |-> ConstraintIteration(st.g), src |-> st.src]
      [] st.g.pc = "cells"       -> [g |-> CellIteration(st.g), src |-> st.src]
      [] OTHER                   -> st

\* n steps, the count being halved to keep the evaluation shallow
RECURSIVE GenerateSteps(_, _)
GenerateSteps(st, n) ==
    IF n <= 1 THEN GenerateStep(st)
    ELSE Bind(LAMBDA half : GenerateSteps(half, n - (n \div 2)),
              GenerateSteps(st, n \div 2))

\* the steps of the call up to its return statement
RECURSIVE GenerateRun(_, _)
GenerateRun(st, n) ==
    Bind(LAMBDA after :
            IF after.g.pc \in {"validate", "failed"} THEN after
            ELSE GenerateRun(after, 2 * n),
         GenerateSteps(st, n))

\* generate(size, seed, difficulty) as one call (generator.js 24-188): the
\* level returned and the random source the call leaves behind
generate(size, seed, difficulty, math) ==
    Bind(LAMBDA final : [level |-> GenerateReturn(final.g, final.src.rng),
                         src   |-> final.src],
         GenerateRun([g   |-> GenerateEnter(size, difficulty),
                      src |-> [rng |-> EnterRng(seed), math |-> math]], 16))

\* generateFromSeed (generator.js 190-193)
generateFromSeed(size, seed, difficulty, math) == generate(size, seed, difficulty, math)

(***************************************************************************)
(* The second LevelGenerator class (generator.js 412-694): unseeded, one    *)
(* shuffled reduction queue                                                *)
(***************************************************************************)
\* shuffle(array) with Math.random() (generator.js 688-693): the array and
\* the engine after the draws
Simple_shuffle(array, math) ==
    Bind(LAMBDA out : [array |-> out.array, math |-> out.src.math],
         shuffle(array, [rng |-> NullRng, math |-> math]))

\* a variant of Simple_isValidPlacement without the column count
Simple_isValidPlacementNoColumn(board, row, col, size, piece) ==
    /\ ~(col >= 2 /\ board[row][col - 1] = piece /\ board[row][col - 2] = piece)
    /\ ~(row >= 2 /\ board[row - 1][col] = piece /\ board[row - 2][col] = piece)
    /\ ~(2 * Count({c \in 0..(col - 1) : board[row][c] = piece}) >= size)

\* isValidPlacement (generator.js 553-574): runs and counts only
Simple_isValidPlacement(board, row, col, size, piece) ==
    /\ ~(col >= 2 /\ board[row][col - 1] = piece /\ board[row][col - 2] = piece)
    /\ ~(row >= 2 /\ board[row - 1][col] = piece /\ board[row - 2][col] = piece)
    /\ ~(2 * Count({c \in 0..(col - 1) : board[row][c] = piece}) >= size)
    /\ ~(2 * Count({r \in 0..(row - 1) : board[r][col] = piece}) >= size)

\* fillBoard (generator.js 534-551) as an explicit-stack machine.  f holds
\*   board : the array being filled,
\*   stack : for each active call above the current one, its shuffled pair
\*           and the index in it of the piece it has placed,
\*   order : the shuffled pair of the current call,
\*   try   : the index of the candidate the current call tests next,
\*   state : "run", or "ok" / "fail" once the outermost call has returned.
\* The outermost call shuffles its pair on entry.
Simple_FillStart(size, math) ==
    Bind(LAMBDA sh : [f |-> [board |-> createEmptyBoard(size), stack |-> <<>>,
                             order |-> sh.array, try |-> 1, state |-> "run"],
                      math |-> sh.math],
         Simple_shuffle(<<SUN, MOON>>, math))

\* one step of the machine; a placement enters the next call, which
\* shuffles its pair unless it is the base case
Simple_fillBoard(f, size, math) ==
    LET pos == Len(f.stack)
        row == pos \div size
        col == pos % size
    IN  IF row = size THEN [f |-> [f EXCEPT !.state = "ok"], math |-> math]
        ELSE IF f.try > 2
        THEN IF pos = 0 THEN [f |-> [f EXCEPT !.state = "fail"], math |-> math]
             ELSE [f |-> [f EXCEPT
                            !.board[(pos - 1) \div size][(pos - 1) % size] = 0,
                            !.order = f.stack[pos].order,
                            !.try = f.stack[pos].try + 1,
                            !.stack = SubSeq(f.stack, 1, pos - 1)],
                   math |-> math]
        ELSE IF Simple_isValidPlacement(f.board, row, col, size, f.order[f.try])
        THEN IF pos + 1 = size * size
             THEN [f |-> [f EXCEPT
                            !.board[row][col] = f.order[f.try],
                            !.stack = Append(f.stack, [order |-> f.order,
                                                       try |-> f.try]),
                            !.try = 1],
                   math |-> math]
             ELSE Bind(LAMBDA sh :
                         [f |-> [f EXCEPT
                                   !.board[row][col] = f.order[f.try],
                                   !.stack = Append(f.stack, [order |-> f.order,
                                                              try |-> f.try]),
                                   !.order = sh.array,
                                   !.try = 1],
                          math |-> sh.math],
                       Simple_shuffle(<<SUN, MOON>>, math))
        ELSE [f |-> [f EXCEPT !.try = f.try + 1], math |-> math]

\* generate(size) is entered (generator.js 426-428)
Simple_GenerateEnter(size, math) ==
    Bind(LAMBDA st : [g |-> [IdleGen EXCEPT !.pc = "simpleFill", !.size = size,
                                            !.fill = st.f],
                      math |-> st.math],
         Simple_FillStart(size, math))

\* generator.js 428-432: a step of fillBoard, and its outcome
Simple_FillIteration(g0, math) ==
    Bind(LAMBDA st :
            [g |-> [g0 EXCEPT !.fill = st.f,
                              !.pc = CASE st.f.state = "ok"   -> "simpleBuild"
                                       [] st.f.state = "fail" -> "simpleFailed"
                                       [] OTHER               -> "simpleFill"],
             math |-> st.math],
         Simple_fillBoard(g0.fill, g0.size, math))

\* generator.js 434-452: the constraints of a solution
Simple_deriveConstraints(solution, size) == deriveConstraints(solution, size)

\* generator.js 454-494: the grids, the puzzle and the reduction queue, the
\* shuffled constraint slots followed by the shuffled cells, shuffled again
Simple_GenerateBuild(g0, math) ==
    Bind(LAMBDA sh1 :
        Bind(LAMBDA sh2 :
            Bind(LAMBDA sh3 :
                [g |-> [g0 EXCEPT
                          !.pc = "simpleReduce",
                          !.solution = g0.fill.board,
                          !.constraints =
                              Simple_deriveConstraints(g0.fill.board, g0.size),
                          !.puzzle = g0.fill.board,
                          !.items = sh3.array, !.i = 1],
                 math |-> sh3.math],
                Simple_shuffle(sh1.array \o sh2.array, sh2.math)),
            Simple_shuffle(CellItems(g0.size), sh1.math)),
        Simple_shuffle(ConstraintItems(g0.size), math))

\* the puzzle with the entry of a queue item cleared
Simple_Clear(loc, item) ==
    IF item.type = "cell"
    THEN [loc EXCEPT !.puzzle[item.r][item.c] = 0]
    ELSE [loc EXCEPT !.constraints = ClearConstraint(loc.constraints, item)]

\* generator.js 497-521: one iteration of the reduction loop (or its exit)
Simple_ReduceIteration(loc) ==
    IF loc.i > Len(loc.items) THEN [loc EXCEPT !.pc = "simpleDone"]
    ELSE Bind(LAMBDA tentative :
                 IF solveLogically(tentative.puzzle, loc.size,
                                   tentative.constraints).solved
                 THEN [tentative EXCEPT !.i = @ + 1]
                 ELSE [loc EXCEPT !.i = @ + 1],
              Simple_Clear(loc, loc.items[loc.i]))

\* generator.js 429-432, 523-527: null when fillBoard failed, else the
\* object returned, which has no seed (size is kept to read the boards)
Simple_GenerateReturn(loc) ==
    IF loc.pc = "simpleFailed" THEN NullLevel
    ELSE [isNull |-> FALSE, size |-> loc.size, solution |-> loc.solution,
          initialBoard |-> loc.puzzle, constraints |-> loc.constraints,
          seed |-> <<>>]

(***************************************************************************)
(* SolveHistory (generator.js 699-916)                                     *)
(***************************************************************************)
\* this.maxEntries (generator.js 702)
maxEntries == 100

\* the localStorage item 'tango_solve_history': absent, or the array saved
NoItem == [set |-> FALSE, solves |-> <<>>]

\* getAllSolves (generator.js 743-751): the array stored, [] when absent
getAllSolves(item) == IF item.set THEN item.solves ELSE <<>>

\* generateId (generator.js 860-862): Date.now() and a Math.random() draw
generateId(now, math) ==
    Bind(LAMBDA d : [id |-> <<now, d.value>>, math |-> d.math], MathRandom(math))

\* variant of saveSolve that adds the entry at the end
saveSolveAppend(item, solveData, now, math) ==
    Bind(LAMBDA gid :
           LET entry == [id |-> gid.id, size |-> solveData.size,
                         seed |-> solveData.seed,
                         timeSeconds |-> solveData.timeSeconds,
                         moveCount |-> solveData.moveCount, timestamp |-> now]
               solves == Append(getAllSolves(item), entry)
           IN  [item |-> [set |-> TRUE,
                          solves |-> IF Len(solves) > maxEntries
                                     THEN SubSeq(solves, 1, maxEntries)
                                     ELSE solves],
                entry |-> entry, math |-> gid.math],
         generateId(now, math))

\* saveSolve (generator.js 714-737) followed by saveToStorage (868-874): the
\* item stored, the entry returned and the engine behind Math.random
saveSolve(item, solveData, now, math) ==
    Bind(LAMBDA gid :
           LET entry == [id |-> gid.id, size |-> solveData.size,
                         seed |-> solveData.seed,
                         timeSeconds |-> solveData.timeSeconds,
                         moveCount |-> solveData.moveCount, timestamp |-> now]
               solves == <<entry>> \o getAllSolves(item)
           IN  [item |-> [set |-> TRUE,
                          solves |-> IF Len(solves) > maxEntries
                                     THEN SubSeq(solves, 1, maxEntries)
                                     ELSE solves],
                entry |-> entry, math |-> gid.math],
         generateId(now, math))

\* clearHistory (generator.js 852-854)
clearHistory(item) == NoItem

(***************************************************************************)
(* Game (game.js 324-670)                                                  *)
(***************************************************************************)
\* constructor (game.js 325-335); the empty arrays are <<>>
NewGame(size, difficulty) ==
    [size |-> size, difficulty |-> difficulty,
     board |-> <<>>, initialBoard |-> <<>>, solution |-> <<>>,
     constraints |-> [h |-> <<>>, v |-> <<>>],
     history |-> <<>>, seed |-> <<>>]

\* chars.charAt(k) of generateRandomSeed, as a character code
SeedChar(k) ==
    IF k < 26 THEN 65 + k
    ELSE IF k < 52 THEN 97 + (k - 26)
    ELSE 48 + (k - 52)

\* generateRandomSeed (game.js 377-385): st holds the string built so far
\* and the engine behind Math.random; n is the number of characters to add
RECURSIVE SeedLoop(_, _)
SeedLoop(st, n) ==
    IF n = 0 THEN st
    ELSE Bind(LAMBDA d :
                 SeedLoop([seed |-> Append(st.seed, SeedChar(FloorMul(d.value, 62))),
                           math |-> d.math], n - 1),
              MathRandom(st.math))

generateRandomSeed(math) == SeedLoop([seed |-> <<>>, math |-> math], 8)

\* variant of setCell that pushes the snapshot after the write
Game_setCellPushAfter(gm, row, col, value) ==
    IF gm.initialBoard[row][col] # 0 THEN [game |-> gm, ret |-> FALSE]
    ELSE [game |-> [gm EXCEPT !.board[row][col] = value,
                              !.history = Append(gm.history,
                                    [gm.board EXCEPT ![row][col] = value])],
          ret |-> TRUE]

\* variant of setCell without the test of the fixed cells
Game_setCellUnguarded(gm, row, col, value) ==
    [game |-> [gm EXCEPT !.history = Append(gm.history, gm.board),
                         !.board[row][col] = value],
     ret |-> TRUE]

\* setCell (game.js 391-400): the game after the call and the value returned
Game_setCell(gm, row, col, value) ==
    IF gm.initialBoard[row][col] # 0 THEN [game |-> gm, ret |-> FALSE]
    ELSE [game |-> [gm EXCEPT !.history = Append(gm.history, gm.board),
                              !.board[row][col] = value],
          ret |-> TRUE]

\* variant of cycleCell that cycles over two values
Game_cycleCellTwo(gm, row, col) ==
    IF gm.initialBoard[row][col] # 0 THEN [game |-> gm, ret |-> FALSE]
    ELSE Game_setCell(gm, row, col, (gm.board[row][col] + 1) % 2)

\* cycleCell (game.js 402-410)
Game_cycleCell(gm, row, col) ==
    IF gm.initialBoard[row][col] # 0 THEN [game |-> gm, ret |-> FALSE]
    ELSE Game_setCell(gm, row, col, (gm.board[row][col] + 1) % 3)

\* undo (game.js 412-418)
Game_undo(gm) ==
    IF Len(gm.history) > 0
    THEN [game |-> [gm EXCEPT !.board = gm.history[Len(gm.history)],
                              !.history = SubSeq(gm.history, 1, Len(gm.history) - 1)],
          ret |-> TRUE]
    ELSE [game |-> gm, ret |-> FALSE]

\* isValidPos and checkLine of Game (game.js 547-559)
Game_isValidPos(gm, r, c) == r >= 0 /\ r < gm.size /\ c >= 0 /\ c < gm.size

Game_checkLine(gm, r, c, dr1, dc1, dr2, dc2) ==
    IF ~Game_isValidPos(gm, r + dr1, c + dc1) \/ ~Game_isValidPos(gm, r + dr2, c + dc2)
    THEN FALSE
    ELSE /\ gm.board[r + dr1][c + dc1] # 0
         /\ gm.board[r + dr1][c + dc1] = gm.board[r + dr2][c + dc2]

Game_getOpposite(val) == IF val = 1 THEN 2 ELSE 1

\* the neighbour pairs of priority 1 in the order tested, and for each the
\* offset of the neighbour whose opposite is returned (game.js 468-475)
Game_LineTests ==
    << <<0, 0 - 1, 0, 0 - 2>>, <<0, 1, 0, 2>>, <<0, 0 - 1, 0, 1>>,
       <<0 - 1, 0, 0 - 2, 0>>, <<1, 0, 2, 0>>, <<0 - 1, 0, 1, 0>> >>

Game_LineHits(gm, r, c) ==
    {k \in 1..6 : Game_checkLine(gm, r, c, Game_LineTests[k][1], Game_LineTests[k][2],
                                 Game_LineTests[k][3], Game_LineTests[k][4])}

\* priority 1 (game.js 461-478)
Game_RunMove(gm) ==
    LET hits == {k \in 0..(gm.size * gm.size - 1) :
                    /\ gm.board[k \div gm.size][k % gm.size] = 0
                    /\ Game_LineHits(gm, k \div gm.size, k % gm.size) # {}}
    IN  IF hits = {} THEN NoMove
        ELSE LET r == Min(hits) \div gm.size
                 c == Min(hits) % gm.size
                 t == Game_LineTests[Min(Game_LineHits(gm, r, c))]
             IN  [r |-> r, c |-> c,
                  val |-> Game_getOpposite(gm.board[r + t[1]][c + t[2]])]

\* a slot whose symbol is truthy and equal to '=' or 'x', one side filled
Game_Forcing(sym, v1, v2) ==
    /\ sym # NONE
    /\ sym = EQUAL \/ sym = CROSS
    /\ (v1 # 0 /\ v2 = 0) \/ (v1 = 0 /\ v2 # 0)

\* a variant of Game_SymVal that reads every symbol as '='
Game_SymValSame(sym, v) == v

Game_SymVal(sym, v) == IF sym = EQUAL THEN v ELSE Game_getOpposite(v)

\* priority 2, horizontal (game.js 480-497)
Game_HConstraintMove(gm) ==
    LET w == gm.size - 1
        hits == {k \in 0..(gm.size * w - 1) :
                    Game_Forcing(gm.constraints.h[k \div w][k % w],
                                 gm.board[k \div w][k % w],
                                 gm.board[k \div w][(k % w) + 1])}
    IN  IF hits = {} THEN NoMove
        ELSE LET r == Min(hits) \div w
                 c == Min(hits) % w
                 sym == gm.constraints.h[r][c]
             IN  IF gm.board[r][c] # 0
                 THEN [r |-> r, c |-> c + 1, val |-> Game_SymVal(sym, gm.board[r][c])]
                 ELSE [r |-> r, c |-> c, val |-> Game_SymVal(sym, gm.board[r][c + 1])]

\* priority 2, vertical (game.js 498-514)
Game_VConstraintMove(gm) ==
    LET hits == {k \in 0..((gm.size - 1) * gm.size - 1) :
                    Game_Forcing(gm.constraints.v[k \div gm.size][k % gm.size],
                                 gm.board[k \div gm.size][k % gm.size],
                                 gm.board[(k \div gm.size) + 1][k % gm.size])}
    IN  IF hits = {} THEN NoMove
        ELSE LET r == Min(hits) \div gm.size
                 c == Min(hits) % gm.size
                 sym == gm.constraints.v[r][c]
             IN  IF gm.board[r][c] # 0
                 THEN [r |-> r + 1, c |-> c, val |-> Game_SymVal(sym, gm.board[r][c])]
                 ELSE [r |-> r, c |-> c, val |-> Game_SymVal(sym, gm.board[r + 1][c])]

\* the tallies of priority 3 over a line
Game_Suns(line, size) == Cardinality({i \in 0..(size - 1) : line[i] = 1})
Game_Moons(line, size) == Cardinality({i \in 0..(size - 1) : line[i] = 2})
Game_Empties(line, size) == {i \in 0..(size - 1) : line[i] # 1 /\ line[i] # 2}

Game_LineFull(line, size) ==
    /\ Game_Empties(line, size) # {}
    /\ 2 * Game_Suns(line, size) = size \/ 2 * Game_Moons(line, size) = size

Game_LineFill(line, size) == IF 2 * Game_Suns(line, size) = size THEN 2 ELSE 1

\* priority 3, rows (game.js 516-529)
Game_RowBalanceMove(gm) ==
    LET hits == {r \in 0..(gm.size - 1) : Game_LineFull(gm.board[r], gm.size)}
    IN  IF hits = {} THEN NoMove
        ELSE [r |-> Min(hits), c |-> Min(Game_Empties(gm.board[Min(hits)], gm.size)),
              val |-> Game_LineFill(gm.board[Min(hits)], gm.size)]

\* priority 3, columns (game.js 530-542)
Game_ColBalanceMove(gm) ==
    LET col(c) == [r \in 0..(gm.size - 1) |-> gm.board[r][c]]
        hits == {c \in 0..(gm.size - 1) : Game_LineFull(col(c), gm.size)}
    IN  IF hits = {} THEN NoMove
        ELSE [r |-> Min(Game_Empties(col(Min(hits)), gm.size)), c |-> Min(hits),
              val |-> Game_LineFill(col(Min(hits)), gm.size)]

\* findLogicalMove of Game (game.js 460-545); the reason text is left out
Game_findLogicalMove(gm) ==
    Bind(LAMBDA m1 : OrElse(m1,
      Bind(LAMBDA m2 : OrElse(m2,
        Bind(LAMBDA m3 : OrElse(m3,
          Bind(LAMBDA m4 : OrElse(m4, Game_ColBalanceMove(gm)),
               Game_RowBalanceMove(gm))),
          Game_VConstraintMove(gm))),
        Game_HConstraintMove(gm))),
      Game_RunMove(gm))

\* variant of Game_HintCandidates without the pass over the wrong pieces
Game_HintCandidatesEmptyOnly(gm) ==
    LET chosen == {k \in 0..(gm.size * gm.size - 1) :
                      /\ gm.board[k \div gm.size][k % gm.size]
                            # gm.solution[k \div gm.size][k % gm.size]
                      /\ gm.board[k \div gm.size][k % gm.size] = 0}
        order == SelectSeq([i \in 1..(gm.size * gm.size) |-> i - 1],
                           LAMBDA k : k \in chosen)
    IN  [n \in 1..Len(order) |->
            [k |-> order[n], r |-> order[n] \div gm.size, c |-> order[n] % gm.size,
             val |-> gm.solution[order[n] \div gm.size][order[n] % gm.size]]]

\* the candidates of the fallback of getHint (game.js 429-450), in the
\* order they are pushed
Game_HintCandidates(gm) ==
    LET wrong(k) == gm.board[k \div gm.size][k % gm.size]
                       # gm.solution[k \div gm.size][k % gm.size]
        empties == {k \in 0..(gm.size * gm.size - 1) :
                       wrong(k) /\ gm.board[k \div gm.size][k % gm.size] = 0}
        all == {k \in 0..(gm.size * gm.size - 1) : wrong(k)}
        chosen == IF empties # {} THEN empties ELSE all
        order == SelectSeq([i \in 1..(gm.size * gm.size) |-> i - 1],
                           LAMBDA k : k \in chosen)
    IN  [n \in 1..Len(order) |->
            [k |-> order[n], r |-> order[n] \div gm.size, c |-> order[n] % gm.size,
             val |-> gm.solution[order[n] \div gm.size][order[n] % gm.size]]]

\* getHint (game.js 420-458): the game and the engine behind Math.random
\* after the call, and the hint returned (NoMove for null)
Game_getHint(gm, math) ==
    Bind(LAMBDA logicMove :
        IF logicMove # NoMove
        THEN [game |-> Game_setCell(gm, logicMove.r, logicMove.c, logicMove.val).game,
              math |-> math, hint |-> logicMove]
        ELSE LET candidates == Game_HintCandidates(gm)
             IN  IF Len(candidates) = 0
                 THEN [game |-> gm, math |-> math, hint |-> NoMove]
                 ELSE LET d == MathRandom(math)
                          hint == candidates[FloorMul(d.value, Len(candidates)) + 1]
                      IN  [game |-> Game_setCell(gm, hint.r, hint.c, hint.val).game,
                           math |-> d.math,
                           hint |-> [r |-> hint.r, c |-> hint.c, val |-> hint.val]],
        Game_findLogicalMove(gm))

\* validateBoard (game.js 583-669): the error objects pushed, as a set; an
\* error is told by its type and its place (index is kept in r or in c)
Game_RowErrors(gm) ==
    {[type |-> "row_balance", r |-> r, c |-> 0] : r \in {x \in 0..(gm.size - 1) :
        \/ 2 * Cardinality({c \in 0..(gm.size - 1) : gm.board[x][c] = 1}) > gm.size
        \/ 2 * Cardinality({c \in 0..(gm.size - 1) : gm.board[x][c] = 2}) > gm.size}}
    \cup
    {[type |-> "row_consecutive", r |-> k \div gm.size, c |-> k % gm.size] :
        k \in {x \in 0..(gm.size * gm.size - 1) :
            /\ x % gm.size < gm.size - 2
            /\ gm.board[x \div gm.size][x % gm.size] # 0
            /\ gm.board[x \div gm.size][x % gm.size]
                  = gm.board[x \div gm.size][(x % gm.size) + 1]
            /\ gm.board[x \div gm.size][(x % gm.size) + 1]
                  = gm.board[x \div gm.size][(x % gm.size) + 2]}}

Game_ColErrors(gm) ==
    {[type |-> "col_balance", r |-> 0, c |-> c] : c \in {x \in 0..(gm.size - 1) :
        \/ 2 * Cardinality({r \in 0..(gm.size - 1) : gm.board[r][x] = 1}) > gm.size
        \/ 2 * Cardinality({r \in 0..(gm.size - 1) : gm.board[r][x] = 2}) > gm.size}}
    \cup
    {[type |-> "col_consecutive", r |-> k \div gm.size, c |-> k % gm.size] :
        k \in {x \in 0..(gm.size * gm.size - 1) :
            /\ x \div gm.size < gm.size - 2
            /\ gm.board[x \div gm.size][x % gm.size] # 0
            /\ gm.board[x \div gm.size][x % gm.size]
                  = gm.board[(x \div gm.size) + 1][x % gm.size]
            /\ gm.board[(x \div gm.size) + 1][x % gm.size]
                  = gm.board[(x \div gm.size) + 2][x % gm.size]}}

\* variant of the constraint test with the two symbols exchanged
Game_ContradictsSwapped(symbol, v1, v2) ==
    /\ symbol # NONE
    /\ v1 # 0
    /\ v2 # 0
    /\ IF symbol = EQUAL THEN v1 = v2
       ELSE IF symbol = CROSS THEN v1 # v2
       ELSE FALSE

\* a truthy symbol between two filled cells that they contradict
Game_Contradicts(symbol, v1, v2) ==
    /\ symbol # NONE
    /\ v1 # 0
    /\ v2 # 0
    /\ IF symbol = EQUAL THEN v1 # v2
       ELSE IF symbol = CROSS THEN v1 = v2
       ELSE FALSE

Game_ConstraintErrors(gm) ==
    {[type |-> "h_constraint", r |-> k \div (gm.size - 1), c |-> k % (gm.size - 1)] :
        k \in {x \in 0..(gm.size * (gm.size - 1) - 1) :
            Game_Contradicts(gm.constraints.h[x \div (gm.size - 1)][x % (gm.size - 1)],
                             gm.board[x \div (gm.size - 1)][x % (gm.size - 1)],
                             gm.board[x \div (gm.size - 1)][(x % (gm.size - 1)) + 1])}}
    \cup
    {[type |-> "v_constraint", r |-> k \div gm.size, c |-> k % gm.size] :
        k \in {x \in 0..((gm.size - 1) * gm.size - 1) :
            Game_Contradicts(gm.constraints.v[x \div gm.size][x % gm.size],
                             gm.board[x \div gm.size][x % gm.size],
                             gm.board[(x \div gm.size) + 1][x % gm.size])}}

Game_validateBoard(gm) ==
    Game_RowErrors(gm) \cup Game_ColErrors(gm) \cup Game_ConstraintErrors(gm)

\* variant of checkWinCondition that does not look at the errors
Game_checkWinConditionFull(gm) ==
    IF \E k \in 0..(gm.size * gm.size - 1) : gm.board[k \div gm.size][k % gm.size] = 0
    THEN [won |-> FALSE, reason |-> "incomplete", errors |-> {}]
    ELSE [won |-> TRUE, reason |-> "", errors |-> {}]

\* checkWinCondition (game.js 565-580)
Game_checkWinCondition(gm) ==
    IF \E k \in 0..(gm.size * gm.size - 1) : gm.board[k \div gm.size][k % gm.size] = 0
    THEN [won |-> FALSE, reason |-> "incomplete", errors |-> {}]
    ELSE Bind(LAMBDA errors :
                 IF errors = {} THEN [won |-> TRUE, reason |-> "", errors |-> {}]
                 ELSE [won |-> FALSE, reason |-> "", errors |-> errors],
              Game_validateBoard(gm))

(***************************************************************************)
(* The generator as a state machine                                        *)
(***************************************************************************)
\* inputs of the model
Sizes == {4, 6}
RepeatSizes == {4}
Seeds == {<<65, 65, 65, 65, 65, 65, 65, 65>>, <<98>>}
Difficulties == {"medium", "hard", "expert"}
NoSeed == <<>>

VARIABLES
    rng,         \* LevelGenerator.rng of the generator instance
    mathRandom,  \* the engine behind Math.random()
    g,           \* the locals of the generate call in progress
    call,        \* the arguments of the last generate call
    result,      \* the value the last generate call returned
    ref,         \* one earlier call and its result, kept for comparison
    game,        \* the fields of the Game object
    obs,         \* the last Game operation and what it returned, as observed
    ui,          \* the fields of the UI object
    browser      \* the page: its URL parameters, intervals and localStorage

genVars == <<rng, mathRandom, g, call, result, ref>>
sessionVars == <<game, obs>>
uiVars == <<ui, browser>>
vars == <<rng, mathRandom, g, call, result, ref, game, obs, ui, browser>>

\* no Game operation observed yet.  name, r, c, val, kind: the operation and
\* its arguments; ret: what it returned (for getHint: a hint was returned);
\* shadow: the boards before each write not yet undone; run: the number of
\* consecutive successful cycleCell calls on (r, c) ending with this one
NoObs ==
    [name |-> "none", kind |-> "", r |-> 0, c |-> 0, val |-> 0, ret |-> FALSE,
     shadow |-> <<>>, run |-> 0]

\* no UI object constructed, no page loaded
NoUI == [timerInterval |-> 0, seconds |-> 0, moveCount |-> 0]
NoBrowser == [loaded |-> FALSE, search |-> [g |-> <<>>, d |-> "", l |-> FALSE],
              intervals |-> {}, storage |-> NoItem, now |-> 0]

NoCall == [size |-> 0, seed |-> NoSeed, difficulty |-> "medium"]
NoRef == [call |-> NoCall, level |-> NullLevel, later |-> FALSE]

\* new LevelGenerator(seed): constructor (generator.js 2-14)
Constructor(seed) == IF seed # NoSeed THEN NewSeededRNG(seed) ELSE NullRng

GenInit ==
    /\ \E seed \in Seeds \cup {NoSeed} : rng = Constructor(seed)
    /\ mathRandom \in MathRandomStates
    /\ g = IdleGen
    /\ call = NoCall
    /\ result = NullLevel
    /\ ref = NoRef
    /\ game = NewGame(0, "medium")
    /\ obs = NoObs
    /\ ui = NoUI
    /\ browser = NoBrowser

\* a fresh generator instance is constructed
NewGenerator(seed) ==
    /\ g.pc = "idle"
    /\ rng' = Constructor(seed)
    /\ UNCHANGED <<mathRandom, g, call, result, ref, game, obs>>
    /\ UNCHANGED uiVars

\* setSeed(seed) (generator.js 16-18)
SetSeed(seed) ==
    /\ g.pc = "idle"
    /\ rng' = NewSeededRNG(seed)
    /\ UNCHANGED <<mathRandom, g, call, result, ref, game, obs>>
    /\ UNCHANGED uiVars

\* generate(size, seed, difficulty) is entered
GenerateCall(size, seed, difficulty) ==
    /\ g.pc = "idle"
    /\ g' = GenerateEnter(size, difficulty)
    /\ rng' = EnterRng(seed)
    /\ call' = [size |-> size, seed |-> seed, difficulty |-> difficulty]
    /\ result' = NullLevel
    /\ ref' = IF ref = NoRef THEN ref ELSE [ref EXCEPT !.later = TRUE]
    /\ UNCHANGED <<mathRandom, game, obs>>
    /\ UNCHANGED uiVars

\* a step of fillBoard
FillStep ==
    /\ g.pc = "fill"
    /\ g' = FillIteration(g)
    /\ UNCHANGED <<rng, mathRandom, call, result, ref, game, obs>>
    /\ UNCHANGED uiVars

\* the constraints are derived and the candidates shuffled
BuildStep ==
    /\ g.pc = "shuffle"
    /\ LET b == GenerateBuild(g, [rng |-> rng, math |-> mathRandom])
       IN  /\ g' = b.g
           /\ rng' = b.src.rng
           /\ mathRandom' = b.src.math
    /\ UNCHANGED <<call, result, ref, game, obs>>
    /\ UNCHANGED uiVars

ConstraintStep ==
    /\ g.pc = "constraints"
    /\ g' = ConstraintIteration(g)
    /\ UNCHANGED <<rng, mathRandom, call, result, ref, game, obs>>
    /\ UNCHANGED uiVars

CellStep ==
    /\ g.pc = "cells"
    /\ g' = CellIteration(g)
    /\ UNCHANGED <<rng, mathRandom, call, result, ref, game, obs>>
    /\ UNCHANGED uiVars

\* the call returns
GenerateDone ==
    /\ g.pc \in {"validate", "failed"}
    /\ result' = GenerateReturn(g, rng)
    /\ g' = IdleGen
    /\ UNCHANGED <<rng, mathRandom, call, ref, game, obs>>
    /\ UNCHANGED uiVars

\* the call returns and the caller keeps the arguments and the level, to
\* compare later calls to
GenerateDoneKept ==
    /\ g.pc \in {"validate", "failed"}
    /\ call.seed # NoSeed
    /\ result' = GenerateReturn(g, rng)
    /\ ref' = [call |-> call, level |-> GenerateReturn(g, rng), later |-> FALSE]
    /\ g' = IdleGen
    /\ UNCHANGED <<rng, mathRandom, call, game, obs>>
    /\ UNCHANGED uiVars

GenRun ==
    \/ FillStep
    \/ BuildStep
    \/ ConstraintStep
    \/ CellStep

GenSteps ==
    \/ GenRun
    \/ GenerateDone

GenNext ==
    \/ \E seed \in Seeds \cup {NoSeed} : NewGenerator(seed)
    \/ \E seed \in Seeds : SetSeed(seed)
    \/ \E size \in Sizes, seed \in Seeds \cup {NoSeed}, d \in Difficulties :
          GenerateCall(size, seed, d)
    \/ GenSteps

\* generate on one generator or several, for every size
SpecGen == GenInit /\ [][GenNext]_vars

RepeatNext ==
    \/ \E seed \in Seeds \cup {NoSeed} : NewGenerator(seed)
    \/ \E seed \in Seeds : SetSeed(seed)
    \/ \E size \in RepeatSizes, seed \in Seeds \cup {NoSeed}, d \in Difficulties :
          GenerateCall(size, seed, d)
    \/ GenSteps
    \/ GenerateDoneKept

\* the same, with one earlier level kept
SpecRepeat == GenInit /\ [][RepeatNext]_vars

(***************************************************************************)
(* The game session as a state machine                                     *)
(***************************************************************************)
\* inputs of the session
GameSizes == {4}
MaxHistory == 3

\* the seeds generateRandomSeed can produce, and those a level is loaded from
FreshSeeds == {generateRandomSeed(m).seed : m \in MathRandomStates}
LoadSeeds == {<<98>>} \cup FreshSeeds

\* a level in the old compact format, as main.js 34-62 decodes it
LegacyLevel ==
    [size |-> 4,
     initialBoard |-> [r \in 0..3 |-> [c \in 0..3 |->
                          IF r = 0 /\ c \in {0, 1} THEN SUN
                          ELSE IF r = 3 /\ c = 3 THEN MOON ELSE EMPTY]],
     constraints |-> [h |-> [r \in 0..3 |-> [c \in 0..2 |->
                                IF r = 1 /\ c = 0 THEN CROSS ELSE NONE]],
                      v |-> [r \in 0..2 |-> [c \in 0..3 |->
                                IF r = 1 /\ c = 3 THEN EQUAL ELSE NONE]]]]

\* the levelData arguments of startNewGame.  At page load (main.js 14-72):
\* null, {size, seed, difficulty} or the legacy form
BootLevelData ==
    {[kind |-> "null"]}
    \cup [kind : {"seed"}, size : GameSizes, seed : LoadSeeds,
          difficulty : Difficulties]
    \cup {[kind |-> "legacy", size |-> LegacyLevel.size,
           initialBoard |-> LegacyLevel.initialBoard,
           constraints |-> LegacyLevel.constraints]}

\* from the user interface (ui.js 29-37, 675-682): null or {size, seed},
\* difficulty "" standing for the absent field
UiLevelData ==
    {[kind |-> "null"]}
    \cup [kind : {"seed"}, size : GameSizes, seed : LoadSeeds, difficulty : {""}]

LevelData == BootLevelData \cup UiLevelData

SessionInit ==
    /\ rng = Constructor(NoSeed)
    /\ mathRandom \in MathRandomStates
    /\ g = IdleGen
    /\ call = NoCall
    /\ result = NullLevel
    /\ ref = NoRef
    /\ \E size \in GameSizes, d \in Difficulties : game = NewGame(size, d)
    /\ obs = NoObs
    /\ ui = NoUI
    /\ browser = NoBrowser

Started == game.board # <<>>

Observe(name, kind, r, c, val, ret, shadow, run) ==
    [name |-> name, kind |-> kind, r |-> r, c |-> c, val |-> val, ret |-> ret,
     shadow |-> shadow, run |-> run]

\* the levels the session generates, each computed once: a seeded call does
\* not read the engine behind Math.random
SessionLevels ==
    {[size |-> size, seed |-> seed, difficulty |-> d,
      out |-> generateFromSeed(size, seed, d, 0)] :
        size \in GameSizes, seed \in LoadSeeds \cup {<<110, 117, 108, 108>>},
        d \in Difficulties}

Generated(size, seed, difficulty) ==
    (CHOOSE e \in SessionLevels :
        e.size = size /\ e.seed = seed /\ e.difficulty = difficulty).out

\* the assignments of startNewGame from a generated level (game.js 349-352,
\* 368-374); a null level makes `level.solution` throw and leaves the other
\* fields as they are
Game_loadLevel(gm, level) ==
    IF level.isNull THEN gm
    ELSE [gm EXCEPT !.solution = level.solution,
                    !.constraints = level.constraints,
                    !.initialBoard = level.initialBoard,
                    !.board = level.initialBoard,
                    !.history = <<>>]

\* startNewGame(levelData) (game.js 337-375): the game, the generate call
\* made (NoCall on the legacy path) and its outcome
Game_startNewGame(gm, ld, math) ==
    IF ld.kind = "null"
    THEN Bind(LAMBDA s :
           Bind(LAMBDA out :
                  [game |-> Game_loadLevel([gm EXCEPT !.seed = s.seed], out.level),
                   math |-> s.math,
                   call |-> [size |-> gm.size, seed |-> s.seed,
                             difficulty |-> gm.difficulty],
                   out  |-> out],
                Generated(gm.size, s.seed, gm.difficulty)),
           generateRandomSeed(math))
    ELSE IF ld.kind = "seed"
    THEN Bind(LAMBDA d :
           Bind(LAMBDA out :
                  [game |-> Game_loadLevel([gm EXCEPT !.size = ld.size,
                                                      !.difficulty = d,
                                                      !.seed = ld.seed], out.level),
                   math |-> math,
                   call |-> [size |-> ld.size, seed |-> ld.seed, difficulty |-> d],
                   out  |-> out],
                Generated(ld.size, ld.seed, d)),
           IF ld.difficulty # "" THEN ld.difficulty ELSE gm.difficulty)
    ELSE [game |-> [gm EXCEPT
                      !.size = ld.size,
                      !.initialBoard = ld.initialBoard,
                      !.board = ld.initialBoard,
                      !.constraints = ld.constraints,
                      !.seed = NoSeed,
                      !.solution = solveLogically(ld.initialBoard, ld.size,
                                                  ld.constraints).board,
                      !.history = <<>>],
          math |-> math,
          call |-> NoCall,
          out  |-> [level |-> NullLevel, src |-> [rng |-> NullRng, math |-> math]]]

\* a new game is started: at page load (main.js 72), by the new-game button
\* or the size select (ui.js 29-37, which sets game.size first), or by
\* viewPuzzle (ui.js 675-682)
StartNewGame(size, ld) ==
    /\ g.pc = "idle"
    /\ ld \in IF game.board # <<>> THEN UiLevelData ELSE BootLevelData
    /\ (ld.kind # "null" \/ game.board = <<>>) => size = game.size
    /\ \E res \in {Game_startNewGame([game EXCEPT !.size = size], ld, mathRandom)} :
           /\ game' = res.game
           /\ mathRandom' = res.math
           /\ obs' = Observe("startNewGame", ld.kind, 0, 0, 0,
                             ld.kind = "legacy" \/ ~res.out.level.isNull, <<>>, 0)
           /\ IF ld.kind = "legacy"
              THEN UNCHANGED <<rng, call, result>>
              ELSE /\ rng' = res.out.src.rng
                   /\ call' = res.call
                   /\ result' = res.out.level
    /\ UNCHANGED <<g, ref>>
    /\ UNCHANGED uiVars

\* the same, the level of a game started without level data being kept
\* with the arguments of its generate call
StartNewGameKept(size) ==
    /\ g.pc = "idle"
    /\ game.board = <<>> => size = game.size
    /\ \E res \in {Game_startNewGame([game EXCEPT !.size = size],
                                    [kind |-> "null"], mathRandom)} :
           /\ game' = res.game
           /\ mathRandom' = res.math
           /\ obs' = Observe("startNewGame", "null", 0, 0, 0,
                             ~res.out.level.isNull, <<>>, 0)
           /\ rng' = res.out.src.rng
           /\ call' = res.call
           /\ result' = res.out.level
           /\ ref' = [call |-> res.call, level |-> res.out.level, later |-> FALSE]
    /\ UNCHANGED g
    /\ UNCHANGED uiVars

\* the cells the player acts on: the first fixed cell and the first free
\* cell of the level, in row-major order
Touched ==
    IF ~Started THEN {} ELSE
    LET fixed == {k \in 0..(game.size * game.size - 1) :
                     game.initialBoard[k \div game.size][k % game.size] # 0}
        free == (0..(game.size * game.size - 1)) \ fixed
        first(S) == IF S = {} THEN {} ELSE {Min(S)}
    IN  first(fixed) \cup first(free)

Playing == g.pc = "idle" /\ Started

SetCell(row, col, value) ==
    /\ Playing
    /\ Len(game.history) < MaxHistory
    /\ \E res \in {Game_setCell(game, row, col, value)} :
           /\ game' = res.game
           /\ obs' = Observe("setCell", "", row, col, value, res.ret,
                             IF res.ret THEN Append(obs.shadow, game.board)
                                        ELSE obs.shadow, 0)
    /\ UNCHANGED genVars
    /\ UNCHANGED uiVars

CycleCell(row, col) ==
    /\ Playing
    /\ Len(game.history) < MaxHistory
    /\ \E res \in {Game_cycleCell(game, row, col)},
          continues \in {obs.name = "cycleCell" /\ obs.ret /\ obs.r = row
                                                /\ obs.c = col} :
           /\ game' = res.game
           /\ obs' = Observe("cycleCell", "", row, col, 0, res.ret,
                             IF res.ret THEN Append(obs.shadow, game.board)
                                        ELSE obs.shadow,
                             IF ~res.ret THEN 0
                             ELSE IF continues THEN obs.run + 1 ELSE 1)
    /\ UNCHANGED genVars
    /\ UNCHANGED uiVars

Undo ==
    /\ Playing
    /\ \E res \in {Game_undo(game)} :
           /\ game' = res.game
           /\ obs' = Observe("undo", "", 0, 0, 0, res.ret,
                             IF res.ret /\ obs.shadow # <<>>
                             THEN SubSeq(obs.shadow, 1, Len(obs.shadow) - 1)
                             ELSE obs.shadow, 0)
    /\ UNCHANGED genVars
    /\ UNCHANGED uiVars

GetHint ==
    /\ Playing
    /\ Len(game.history) < MaxHistory
    /\ \E res \in {Game_getHint(game, mathRandom)} :
           /\ game' = res.game
           /\ mathRandom' = res.math
           /\ obs' = Observe("getHint", "", res.hint.r, res.hint.c, res.hint.val,
                             res.hint # NoMove,
                             IF res.hint # NoMove THEN Append(obs.shadow, game.board)
                                                  ELSE obs.shadow, 0)
    /\ UNCHANGED <<rng, g, call, result, ref>>
    /\ UNCHANGED uiVars

PlayNext ==
    \/ \E k \in Touched, value \in {EMPTY, SUN, MOON} :
          SetCell(k \div game.size, k % game.size, value)
    \/ \E k \in Touched : CycleCell(k \div game.size, k % game.size)
    \/ Undo
    \/ GetHint

SessionNext ==
    \/ \E size \in GameSizes, ld \in LevelData : StartNewGame(size, ld)
    \/ PlayNext

\* a session of one Game object driven by the user interface
SpecSession == SessionInit /\ [][SessionNext]_vars

\* the number of errors shown up to which the player goes on placing pieces
MaxErrors == 1

\* the player puts a piece on the first empty cell in row-major order
PlaceNext(value) ==
    /\ Playing
    /\ Cardinality(Game_validateBoard(game)) <= MaxErrors
    /\ \E k \in {x \in 0..(game.size * game.size - 1) :
                   /\ game.board[x \div game.size][x % game.size] = 0
                   /\ \A y \in 0..(x - 1) :
                         game.board[y \div game.size][y % game.size] # 0} :
          \E res \in {Game_setCell(game, k \div game.size, k % game.size, value)} :
             /\ game' = res.game
             /\ obs' = Observe("setCell", "", k \div game.size, k % game.size, value,
                               res.ret, <<>>, 0)
    /\ UNCHANGED genVars
    /\ UNCHANGED uiVars

\* validateBoard is called: val is the number of errors returned
ValidateBoard ==
    /\ Playing
    /\ \E errors \in {Game_validateBoard(game)} :
          obs' = Observe("validateBoard", "", 0, 0, Cardinality(errors),
                         errors = {}, <<>>, 0)
    /\ UNCHANGED <<genVars, game>>
    /\ UNCHANGED uiVars

\* checkWinCondition is called: ret is won, kind the reason
CheckWinCondition ==
    /\ Playing
    /\ \E res \in {Game_checkWinCondition(game)} :
          obs' = Observe("checkWinCondition", res.reason, 0, 0,
                         Cardinality(res.errors), res.won, <<>>, 0)
    /\ UNCHANGED <<genVars, game>>
    /\ UNCHANGED uiVars

\* findLogicalMove of Game is called: r, c, val are the move, ret tells that
\* one was returned
FindLogicalMove ==
    /\ Playing
    /\ \E move \in {Game_findLogicalMove(game)} :
          obs' = Observe("findLogicalMove", "", move.r, move.c, move.val,
                         move # NoMove, <<>>, 0)
    /\ UNCHANGED <<genVars, game>>
    /\ UNCHANGED uiVars

PlayStepNext ==
    \/ \E size \in GameSizes, ld \in LevelData : StartNewGame(size, ld)
    \/ \E value \in {SUN, MOON} : PlaceNext(value)
    \/ ValidateBoard
    \/ CheckWinCondition
    \/ FindLogicalMove

\* a session in which the player fills the board cell after cell
SpecPlay == SessionInit /\ [][PlayStepNext]_vars

(***************************************************************************)
(* The deduction engine on puzzles derived from generated levels           *)
(***************************************************************************)
\* inputs: the levels the puzzles are derived from
DeduceSizes == {4}
DeduceSeeds == {<<98>>}
DeduceDifficulties == {"medium", "hard"}

\* a generator constructed without a seed
DeduceInit ==
    /\ rng = Constructor(NoSeed)
    /\ mathRandom = 0
    /\ g = IdleGen
    /\ call = NoCall
    /\ result = NullLevel
    /\ ref = NoRef
    /\ game = NewGame(0, "medium")
    /\ obs = NoObs
    /\ ui = NoUI
    /\ browser = NoBrowser

\* the filled cells that differ from the solution
Wrong(board, solution, size) ==
    {k \in 0..(size * size - 1) :
        /\ board[k \div size][k % size] # 0
        /\ board[k \div size][k % size] # solution[k \div size][k % size]}

\* generateFromSeed is called and returns (generator.js 190-193)
GenerateWhole(size, seed, difficulty) ==
    /\ g.pc = "idle"
    /\ \E out \in {Generated(size, seed, difficulty)} :
          /\ result' = out.level
          /\ rng' = out.src.rng
    /\ call' = [size |-> size, seed |-> seed, difficulty |-> difficulty]
    /\ obs' = NoObs
    /\ UNCHANGED <<mathRandom, g, ref, game>>
    /\ UNCHANGED uiVars

\* the caller clears a clue of the puzzle
ClearClue(r, c) ==
    /\ g.pc = "idle"
    /\ ~result.isNull
    /\ Wrong(result.initialBoard, result.solution, result.size) = {}
    /\ result.initialBoard[r][c] # 0
    /\ result' = [result EXCEPT !.initialBoard[r][c] = 0]
    /\ obs' = NoObs
    /\ UNCHANGED <<rng, mathRandom, g, call, ref, game>>
    /\ UNCHANGED uiVars

\* the caller removes a constraint of the puzzle
ClearSlot(dir, r, c) ==
    /\ g.pc = "idle"
    /\ ~result.isNull
    /\ Wrong(result.initialBoard, result.solution, result.size) = {}
    /\ result.constraints[dir][r][c] # NONE
    /\ result' = [result EXCEPT !.constraints[dir][r][c] = NONE]
    /\ obs' = NoObs
    /\ UNCHANGED <<rng, mathRandom, g, call, ref, game>>
    /\ UNCHANGED uiVars

\* the caller puts on a cell of a level, as generate returned it, the piece
\* opposite to the one of the solution
Misplace(r, c) ==
    /\ g.pc = "idle"
    /\ ~result.isNull
    /\ result = Generated(call.size, call.seed, call.difficulty).level
    /\ result' = [result EXCEPT
                     !.initialBoard[r][c] = getOpposite(result.solution[r][c])]
    /\ obs' = NoObs
    /\ UNCHANGED <<rng, mathRandom, g, call, ref, game>>
    /\ UNCHANGED uiVars

\* solveLogically(board, size, constraints) is entered on a copy of the
\* puzzle (generator.js 264-265)
SolveEnter ==
    /\ g.pc = "idle"
    /\ ~result.isNull
    /\ g' = [IdleGen EXCEPT !.pc = "solve", !.size = result.size,
                            !.solution = result.solution,
                            !.constraints = result.constraints,
                            !.puzzle = result.initialBoard]
    /\ obs' = NoObs
    /\ UNCHANGED <<rng, mathRandom, call, result, ref, game>>
    /\ UNCHANGED uiVars

\* a forced move is applied to the array: the one findLogicalMove returns
\* or any other that is available
SolveApply(move) ==
    /\ g.pc = "solve"
    /\ g' = [g EXCEPT !.puzzle = ApplyMove(g.puzzle, move)]
    /\ UNCHANGED <<rng, mathRandom, call, result, ref, game, obs>>
    /\ UNCHANGED uiVars

\* findLogicalMove returns null and solveLogically returns
\* (generator.js 275-280): ret is the value returned
SolveExit ==
    /\ g.pc = "solve"
    /\ findLogicalMove(g.puzzle, g.size, g.constraints) = NoMove
    /\ obs' = Observe("solveLogically", "", 0, 0, 0, IsFull(g.puzzle, g.size), <<>>, 0)
    /\ g' = IdleGen
    /\ UNCHANGED <<rng, mathRandom, call, result, ref, game>>
    /\ UNCHANGED uiVars

DeduceNext ==
    \/ \E size \in DeduceSizes, seed \in DeduceSeeds, d \in DeduceDifficulties :
          GenerateWhole(size, seed, d)
    \/ \E r \in 0..3, c \in 0..3 : r < result.size /\ c < result.size /\ ClearClue(r, c)
    \/ \E r \in 0..3, c \in 0..2 :
          r < result.size /\ c < result.size - 1 /\ ClearSlot("h", r, c)
    \/ \E r \in 0..2, c \in 0..3 :
          r < result.size - 1 /\ c < result.size /\ ClearSlot("v", r, c)
    \/ \E r \in 0..3, c \in 0..3 : r < result.size /\ c < result.size /\ Misplace(r, c)
    \/ SolveEnter
    \/ \E move \in ForcedMoves(g.puzzle, g.size, g.constraints) : SolveApply(move)
    \/ SolveExit

\* the deduction engine run on puzzles made from generated levels
SpecDeduce == DeduceInit /\ [][DeduceNext]_vars

\* generate is called again with the arguments of the kept call
Regenerate ==
    /\ ref # NoRef
    /\ GenerateCall(ref.call.size, ref.call.seed, ref.call.difficulty)

\* generate is called with its default seed = null (generator.js 24)
GenerateUnseeded ==
    \E size \in GameSizes, d \in Difficulties : GenerateCall(size, NoSeed, d)

ReloadNext ==
    \/ \E size \in GameSizes : StartNewGameKept(size)
    \/ Regenerate
    \/ GenerateUnseeded
    \/ GenRun
    \/ GenerateDone

\* games started without level data, and their levels generated again
SpecReload == SessionInit /\ [][ReloadNext]_vars

(***************************************************************************)
(* The second LevelGenerator class as a state machine                      *)
(***************************************************************************)
SimpleSizes == {4, 6}

SimpleInit ==
    /\ rng = NullRng
    /\ mathRandom \in MathRandomStates
    /\ g = IdleGen
    /\ call = NoCall
    /\ result = NullLevel
    /\ ref = NoRef
    /\ game = NewGame(0, "medium")
    /\ obs = NoObs
    /\ ui = NoUI
    /\ browser = NoBrowser

\* generate(size) is entered
SimpleCall(size) ==
    /\ g.pc = "idle"
    /\ \E st \in {Simple_GenerateEnter(size, mathRandom)} :
          /\ g' = st.g
          /\ mathRandom' = st.math
    /\ call' = [size |-> size, seed |-> NoSeed, difficulty |-> "medium"]
    /\ result' = NullLevel
    /\ UNCHANGED <<rng, ref, game, obs>>
    /\ UNCHANGED uiVars

SimpleFillStep ==
    /\ g.pc = "simpleFill"
    /\ \E st \in {Simple_FillIteration(g, mathRandom)} :
          /\ g' = st.g
          /\ mathRandom' = st.math
    /\ UNCHANGED <<rng, call, result, ref, game, obs>>
    /\ UNCHANGED uiVars

SimpleBuildStep ==
    /\ g.pc = "simpleBuild"
    /\ \E st \in {Simple_GenerateBuild(g, mathRandom)} :
          /\ g' = st.g
          /\ mathRandom' = st.math
    /\ UNCHANGED <<rng, call, result, ref, game, obs>>
    /\ UNCHANGED uiVars

SimpleReduceStep ==
    /\ g.pc = "simpleReduce"
    /\ g' = Simple_ReduceIteration(g)
    /\ UNCHANGED <<rng, mathRandom, call, result, ref, game, obs>>
    /\ UNCHANGED uiVars

\* the call returns
SimpleDone ==
    /\ g.pc \in {"simpleDone", "simpleFailed"}
    /\ result' = Simple_GenerateReturn(g)
    /\ g' = IdleGen
    /\ UNCHANGED <<rng, mathRandom, call, ref, game, obs>>
    /\ UNCHANGED uiVars

SimpleNext ==
    \/ \E size \in SimpleSizes : SimpleCall(size)
    \/ SimpleFillStep
    \/ SimpleBuildStep
    \/ SimpleReduceStep
    \/ SimpleDone

SpecSimple == SimpleInit /\ [][SimpleNext]_vars

(***************************************************************************)
(* The solve history as a state machine                                    *)
(***************************************************************************)
MaxSaves == 5

\* the solve data handed to saveSolve (ui.js 459-464)
SolveData ==
    [size : {4}, seed : {<<98>>}, timeSeconds : {0, 1}, moveCount : {3}]

\* the item after n solves saved at times 0 .. n-1 (n <= maxEntries)
Stored(n) ==
    IF n = 0 THEN NoItem
    ELSE [set |-> TRUE,
          solves |-> [i \in 1..n |->
                        [id |-> <<n - i, 0>>, size |-> 4, seed |-> <<98>>,
                         timeSeconds |-> 0, moveCount |-> 3,
                         timestamp |-> n - i]]]

\* the history holds nothing, or is two, one or no entry short of the cap
HistoryInit ==
    /\ rng = NullRng
    /\ mathRandom = 0
    /\ g = IdleGen
    /\ call = NoCall
    /\ result = NullLevel
    /\ ref = NoRef
    /\ game = NewGame(0, "medium")
    /\ obs = NoObs
    /\ ui = NoUI
    /\ \E n \in {0, maxEntries - 2, maxEntries - 1, maxEntries} :
          browser = [NoBrowser EXCEPT !.storage = Stored(n), !.now = n]

\* saveSolve(solveData): obs keeps the entry returned and the array before,
\* and counts the operations
SaveSolve(solveData) ==
    /\ obs.run < MaxSaves
    /\ \E res \in {saveSolve(browser.storage, solveData, browser.now, mathRandom)} :
          /\ browser' = [browser EXCEPT !.storage = res.item, !.now = @ + 1]
          /\ mathRandom' = res.math
          /\ obs' = Observe("saveSolve", "", 0, 0, 0, TRUE,
                            <<res.entry, getAllSolves(browser.storage)>>,
                            obs.run + 1)
    /\ UNCHANGED <<rng, g, call, result, ref, game, ui>>

ClearHistory ==
    /\ obs.run < MaxSaves
    /\ browser.storage.set
    /\ browser' = [browser EXCEPT !.storage = clearHistory(@)]
    /\ obs' = Observe("clearHistory", "", 0, 0, 0, TRUE, <<>>, obs.run + 1)
    /\ UNCHANGED <<rng, mathRandom, g, call, result, ref, game, ui>>

HistoryNext ==
    \/ \E solveData \in SolveData : SaveSolve(solveData)
    \/ ClearHistory

SpecHistory == HistoryInit /\ [][HistoryNext]_vars

(***************************************************************************)
(* UI (ui.js) and the page set-up (main.js)                                *)
(***************************************************************************)
\* The page state st has the fields game, ui, browser and math (the engine
\* behind Math.random).  this.selected is not kept: the cell a key acts on
\* is an argument.

\* variant of the seed text that is null for every seed
SeedTextNull(seed) == <<110, 117, 108, 108>>

\* `${seed}` in a template literal: the seed, and "null" for null
SeedText(seed) == IF seed = NoSeed THEN <<110, 117, 108, 108>> ELSE seed

\* resetTimer (ui.js 239-243)
UI_resetTimer(st) ==
    [st EXCEPT !.browser.intervals = @ \ {st.ui.timerInterval},
               !.ui.seconds = 0]

\* startTimer (ui.js 245-252): setInterval returns an id that no interval
\* has and that differs from the one kept in timerInterval
UI_startTimer(st) ==
    LET id == Min({k \in 1..(Cardinality(st.browser.intervals) + 2) :
                     k \notin st.browser.intervals \cup {st.ui.timerInterval}})
    IN  [st EXCEPT !.browser.intervals = @ \cup {id}, !.ui.timerInterval = id]

\* variant of stopTimer that leaves the interval running
UI_stopTimerNot(st) == st

\* stopTimer (ui.js 254-256)
UI_stopTimer(st) ==
    [st EXCEPT !.browser.intervals = @ \ {st.ui.timerInterval}]

\* the callback of the interval (ui.js 246-251)
UI_tick(st) == [st EXCEPT !.ui.seconds = @ + 1]

\* updateUrlForCurrentPuzzle (ui.js 233-237): g is set, the other
\* parameters stay
UI_updateUrlForCurrentPuzzle(st) ==
    [st EXCEPT !.browser.search.g = <<st.game.size, SeedText(st.game.seed)>>]

\* startNewGame(levelData) (ui.js 221-231); when the level generated is null
\* Game.startNewGame throws and nothing else is done
UI_startNewGame(st, ld) ==
    Bind(LAMBDA res :
           IF ld.kind # "legacy" /\ res.out.level.isNull
           THEN [st EXCEPT !.game = res.game, !.math = res.math]
           ELSE UI_updateUrlForCurrentPuzzle(
                  UI_startTimer(
                    UI_resetTimer(
                      [st EXCEPT !.game = res.game, !.math = res.math,
                                 !.ui.moveCount = 0]))),
         Game_startNewGame(st.game, ld, st.math))

\* variant of handleWin that saves a solve only when none was saved since
\* the timer was started
UI_handleWinOnce(st) ==
    IF st.ui.timerInterval \notin st.browser.intervals THEN st
    ELSE Bind(LAMBDA saved :
                [UI_stopTimer(st) EXCEPT !.browser.storage = saved.item,
                                         !.browser.now = @ + 1,
                                         !.math = saved.math],
              saveSolve(st.browser.storage,
                        [size |-> st.game.size, seed |-> st.game.seed,
                         timeSeconds |-> st.ui.seconds,
                         moveCount |-> st.ui.moveCount],
                        st.browser.now, st.math))

\* handleWin (ui.js 454-481): the timer is stopped and the solve saved
UI_handleWin(st) ==
    Bind(LAMBDA saved :
           [UI_stopTimer(st) EXCEPT !.browser.storage = saved.item,
                                    !.browser.now = @ + 1,
                                    !.math = saved.math],
         saveSolve(st.browser.storage,
                   [size |-> st.game.size, seed |-> st.game.seed,
                    timeSeconds |-> st.ui.seconds,
                    moveCount |-> st.ui.moveCount],
                   st.browser.now, st.math))

\* handleMove (ui.js 210-219)
UI_handleMove(st) ==
    Bind(LAMBDA moved :
           IF Game_checkWinCondition(moved.game).won THEN UI_handleWin(moved)
           ELSE moved,
         [st EXCEPT !.ui.moveCount = @ + 1])

\* handleCellClick (ui.js 391-395)
UI_handleCellClick(st, row, col) ==
    Bind(LAMBDA res :
           IF res.ret THEN UI_handleMove([st EXCEPT !.game = res.game]) ELSE st,
         Game_cycleCell(st.game, row, col))

\* the keys that act on the selected cell (ui.js 176-198)
Keys == {"Enter", "Shift", " ", "Backspace"}

\* handleKeydown (ui.js 153-208) for these keys, the right Shift key being
\* meant, with the cell (row, col) selected
UI_handleKeydown(st, row, col, key) ==
    Bind(LAMBDA res :
           IF res.ret THEN UI_handleMove([st EXCEPT !.game = res.game]) ELSE st,
         CASE key = "Enter"     -> Game_setCell(st.game, row, col, 1)
           [] key = "Shift"     -> Game_setCell(st.game, row, col, 2)
           [] key = " "         -> Game_cycleCell(st.game, row, col)
           [] key = "Backspace" -> Game_setCell(st.game, row, col, 0))

\* variant of the hint button handler that goes through handleMove
UI_hintClickAsMove(st) ==
    Bind(LAMBDA res :
           IF res.hint # NoMove
           THEN UI_handleMove([st EXCEPT !.game = res.game, !.math = res.math])
           ELSE st,
         Game_getHint(st.game, st.math))

\* the click handler of the hint button (ui.js 50-75)
UI_hintClick(st) ==
    Bind(LAMBDA res : [st EXCEPT !.game = res.game, !.math = res.math],
         Game_getHint(st.game, st.math))

\* the click handler of the undo button (ui.js 39-44)
UI_undoClick(st) == [st EXCEPT !.game = Game_undo(st.game).game]

\* handleShare (ui.js 131-151): the parameters of the link copied
UI_handleShare(st) ==
    [st.browser.search EXCEPT !.g = <<st.game.size, SeedText(st.game.seed)>>]

\* sharePuzzle(size, seed) (ui.js 612-630): the link has g only
UI_sharePuzzle(size, seed) ==
    [g |-> <<size, SeedText(seed)>>, d |-> "", l |-> FALSE]

\* a level in the old compact format, as main.js 34-62 decodes it: the
\* solution of the 4x4 levels with three cells cleared, no constraints
NearlyFullLevel ==
    [size |-> 4,
     initialBoard |-> [r \in 0..3 |-> [c \in 0..3 |->
                          IF <<r, c>> \in {<<0, 0>>, <<0, 1>>, <<3, 3>>} THEN EMPTY
                          ELSE Generated(4, <<98>>, "medium").level.solution[r][c]]],
     constraints |-> [h |-> [r \in 0..3 |-> [c \in 0..2 |-> NONE]],
                      v |-> [r \in 0..2 |-> [c \in 0..3 |-> NONE]]]]

\* the levelData main.js builds from the parameters of the URL (main.js
\* 14-70): g first, then l
LevelDataOf(search) ==
    IF search.g # <<>>
    THEN [kind |-> "seed", size |-> search.g[1], seed |-> search.g[2],
          difficulty |-> IF Len(search.g) >= 3 /\ search.g[3] # ""
                         THEN search.g[3]
                         ELSE IF search.d # "" THEN search.d ELSE "medium"]
    ELSE IF search.l
    THEN [kind |-> "legacy", size |-> NearlyFullLevel.size,
          initialBoard |-> NearlyFullLevel.initialBoard,
          constraints |-> NearlyFullLevel.constraints]
    ELSE [kind |-> "null"]

\* the DOMContentLoaded handler (main.js 1-73): a new Game, a new UI, and
\* startNewGame with the level data of the URL
PageSetUp(st) ==
    UI_startNewGame(
      [st EXCEPT !.game = NewGame(6, IF st.browser.search.d # ""
                                     THEN st.browser.search.d ELSE "medium"),
                 !.ui = NoUI,
                 !.browser.loaded = TRUE],
      LevelDataOf(st.browser.search))

(***************************************************************************)
(* The page as a state machine                                             *)
(***************************************************************************)
MaxGames == 2
MaxMoves == 2
MaxSeconds == 1

\* the URLs the page is opened with: the old compact format, and a seed
\* with a difficulty or with the parameter d
BootSearch ==
    {[g |-> <<>>, d |-> "", l |-> TRUE],
     [g |-> <<4, <<98>>, "hard">>, d |-> "", l |-> FALSE],
     [g |-> <<4, <<98>>>>, d |-> "hard", l |-> FALSE]}

PageInit ==
    /\ rng = Constructor(NoSeed)
    /\ mathRandom = 0
    /\ g = IdleGen
    /\ call = NoCall
    /\ result = NullLevel
    /\ ref = NoRef
    /\ game = NewGame(0, "medium")
    /\ obs = NoObs
    /\ ui = NoUI
    /\ \E search \in BootSearch : browser = [NoBrowser EXCEPT !.search = search]

Page == [game |-> game, ui |-> ui, browser |-> browser, math |-> mathRandom]

\* the page goes to the state st after the handler `name`.  obs keeps
\* whether the handler changed the board (ret), the numbers of solves saved
\* (run) and of moves that left the board won (val) since startNewGame,
\* and the number of startNewGame calls so far (c)
Handled(name, st, starts) ==
    /\ game' = st.game
    /\ ui' = st.ui
    /\ browser' = st.browser
    /\ mathRandom' = st.math
    /\ obs' = Observe(name, "", 0, IF starts THEN obs.c + 1 ELSE obs.c,
                      IF starts THEN 0
                      ELSE IF /\ name \in {"click", "keydown"}
                              /\ st.game.history # game.history
                              /\ Game_checkWinCondition(st.game).won
                      THEN obs.val + 1 ELSE obs.val,
                      st.game.board # game.board \/ st.game.history # game.history,
                      <<>>,
                      IF starts THEN 0
                      ELSE obs.run + (st.browser.now - browser.now))
    /\ UNCHANGED <<rng, g, call, result>>

\* the page is loaded (main.js 1-73)
PageLoad ==
    /\ ~browser.loaded
    /\ Handled("DOMContentLoaded", PageSetUp(Page), TRUE)
    /\ UNCHANGED ref

\* the new-game button (ui.js 35-37)
NewGameClick ==
    /\ browser.loaded
    /\ obs.c < MaxGames
    /\ Handled("startNewGame", UI_startNewGame(Page, [kind |-> "null"]), TRUE)
    /\ UNCHANGED ref

\* a cell is clicked (ui.js 281-285)
CellClick(row, col) ==
    /\ browser.loaded
    /\ Len(game.history) < MaxHistory
    /\ ui.moveCount < MaxMoves
    /\ Handled("click", UI_handleCellClick(Page, row, col), FALSE)
    /\ UNCHANGED ref

\* a key is pressed with the cell (row, col) selected (ui.js 125-127)
KeyDown(row, col, key) ==
    /\ browser.loaded
    /\ Len(game.history) < MaxHistory
    /\ ui.moveCount < MaxMoves
    /\ Handled("keydown", UI_handleKeydown(Page, row, col, key), FALSE)
    /\ UNCHANGED ref

HintClick ==
    /\ browser.loaded
    /\ Len(game.history) < MaxHistory
    /\ Handled("hint", UI_hintClick(Page), FALSE)
    /\ UNCHANGED ref

UndoClick ==
    /\ browser.loaded
    /\ Handled("undo", UI_undoClick(Page), FALSE)
    /\ UNCHANGED ref

\* an interval fires
Tick ==
    /\ browser.loaded
    /\ ui.seconds < MaxSeconds
    /\ \E id \in browser.intervals : Handled("tick", UI_tick(Page), FALSE)
    /\ UNCHANGED ref

\* the page is left for the link `search`; ref keeps the puzzle played
Navigate(search) ==
    /\ obs.c < MaxGames
    /\ game' = NewGame(0, "medium")
    /\ ui' = NoUI
    /\ browser' = [browser EXCEPT !.loaded = FALSE, !.search = search,
                                  !.intervals = {}]
    /\ obs' = [NoObs EXCEPT !.c = obs.c]
    /\ ref' = [call |-> [size |-> game.size, seed |-> game.seed,
                         difficulty |-> game.difficulty],
               level |-> [isNull |-> FALSE, size |-> game.size,
                          solution |-> game.solution,
                          initialBoard |-> game.initialBoard,
                          constraints |-> game.constraints, seed |-> game.seed],
               later |-> TRUE]
    /\ UNCHANGED <<rng, mathRandom, g, call, result>>

\* the share button (ui.js 77-79), and the link opened
ShareAndOpen ==
    /\ browser.loaded
    /\ Navigate(UI_handleShare(Page))

\* the share button of a history entry of the puzzle being played (ui.js
\* 590-599), and the link opened
SharePuzzleAndOpen ==
    /\ browser.loaded
    /\ \E k \in 1..Len(getAllSolves(browser.storage)) :
          /\ getAllSolves(browser.storage)[k].size = game.size
          /\ getAllSolves(browser.storage)[k].seed = game.seed
          /\ Navigate(UI_sharePuzzle(getAllSolves(browser.storage)[k].size,
                                     getAllSolves(browser.storage)[k].seed))

\* the first empty cell of the board in row-major order, if any
FirstEmptyCell ==
    IF ~Started THEN {} ELSE
    LET empty == {k \in 0..(game.size * game.size - 1) :
                     game.board[k \div game.size][k % game.size] = 0}
    IN  IF empty = {} THEN {} ELSE {Min(empty)}

\* the player clicks the first fixed and the first free cell of the level,
\* and uses the keys on the first empty cell of the board
PageNext ==
    \/ PageLoad
    \/ NewGameClick
    \/ \E k \in Touched : CellClick(k \div game.size, k % game.size)
    \/ \E k \in FirstEmptyCell, key \in Keys :
          KeyDown(k \div game.size, k % game.size, key)
    \/ HintClick
    \/ UndoClick
    \/ Tick
    \/ ShareAndOpen
    \/ SharePuzzleAndOpen

\* a page load after another, driven by the player
SpecPage == PageInit /\ [][PageNext]_vars

(***************************************************************************)
(* Properties of generate                                                  *)
(***************************************************************************)
Returned == g.pc = "idle" /\ ~result.isNull

Cells(size) == (0..(size - 1)) \X (0..(size - 1))

\* the number of constraint slots that hold a symbol
KeptConstraints(constraints, size) ==
    Cardinality({it \in {ConstraintItems(size)[k] : k \in 1..(2 * size * (size - 1))} :
                    IF it.type = "h" THEN constraints.h[it.r][it.c] # NONE
                                     ELSE constraints.v[it.r][it.c] # NONE})

\* the number of cells of a board that hold a piece
KeptCells(board, size) ==
    Cardinality({p \in Cells(size) : board[p[1]][p[2]] # EMPTY})

\* C1: for every level generate returns, solveLogically run on a copy of
\* initialBoard with the returned constraints leaves its loop, returns true
\* and leaves the copy equal to solution cell for cell
C1_ReturnedLevelSolves ==
    Returned =>
        LET s == solveLogically(result.initialBoard, result.size, result.constraints)
        IN  s.exited /\ s.solved /\ s.board = result.solution

\* a level of size 6 with empty cells, generated from a seed, has been returned
C1_Witness ==
    /\ Returned
    /\ result.size = 6
    /\ result.seed # NoSeed
    /\ KeptCells(result.initialBoard, 6) < 36

\* a line of pieces is balanced and has no three equal pieces in a row
LineOk(line, size) ==
    /\ \A p \in {SUN, MOON} :
          2 * Cardinality({k \in 0..(size - 1) : line[k] = p}) = size
    /\ \A k \in 0..(size - 3) : ~(line[k] = line[k + 1] /\ line[k + 1] = line[k + 2])

\* rows 0 .. n-1 of a board are pairwise distinct
DistinctRows(board, size, n) ==
    \A r1 \in 0..(n - 1) : \A r2 \in 0..(n - 1) :
        r1 # r2 => \E c \in 0..(size - 1) : board[r1][c] # board[r2][c]

\* placing piece at the end of row `row` makes it equal to an earlier row
CompletesDuplicate(board, row, size, piece) ==
    \E r \in 0..(row - 1) :
        /\ board[r][size - 1] = piece
        /\ \A c \in 0..(size - 2) : board[r][c] = board[row][c]

\* fillBoard is about to test a candidate in the last column of a row
AtLastColumn ==
    /\ g.pc = "fill"
    /\ Len(g.fill.stack) < g.size * g.size
    /\ Len(g.fill.stack) % g.size = g.size - 1
    /\ g.fill.try <= 2

\* C2: every returned solution has N/2 of each piece in every row and
\* column, no three equal consecutive pieces in a row or column and pairwise
\* distinct rows; while fillBoard runs the completed rows are pairwise
\* distinct, and isValidPlacement rejects a last-column piece that would
\* complete a row identical to an earlier one
C2_SolutionWellFormed ==
    /\ Returned =>
          /\ \A r \in 0..(result.size - 1) : LineOk(result.solution[r], result.size)
          /\ \A c \in 0..(result.size - 1) :
                LineOk([r \in 0..(result.size - 1) |-> result.solution[r][c]], result.size)
          /\ DistinctRows(result.solution, result.size, result.size)
    /\ g.pc = "fill" =>
          DistinctRows(g.fill.board, g.size, Len(g.fill.stack) \div g.size)
    /\ AtLastColumn =>
          \A piece \in {SUN, MOON} :
             CompletesDuplicate(g.fill.board, Len(g.fill.stack) \div g.size, g.size, piece)
                => ~isValidPlacement(g.fill.board, Len(g.fill.stack) \div g.size,
                                     g.size - 1, g.size, piece)

\* fillBoard tests a last-column candidate that passes the run and count
\* checks and would complete a duplicate row
C2_Witness ==
    /\ AtLastColumn
    /\ LET row == Len(g.fill.stack) \div g.size
           piece == PieceOrder(row, g.size - 1, g.size)[g.fill.try]
       IN  /\ CompletesDuplicate(g.fill.board, row, g.size, piece)
           /\ isValidPlacementNoRowCheck(g.fill.board, row, g.size - 1, g.size, piece)

\* C3: a generate call with the same size, seed and difficulty as an earlier
\* call returns the same solution, initialBoard and constraints, whatever
\* was done with the generator in between
C3_SameInputsSameLevel ==
    (Returned /\ ref.later /\ call = ref.call) =>
        /\ ~ref.level.isNull
        /\ result.solution = ref.level.solution
        /\ result.initialBoard = ref.level.initialBoard
        /\ result.constraints = ref.level.constraints

\* a later call with the arguments of the kept call has returned
C3_Witness ==
    /\ Returned
    /\ ref.later
    /\ call = ref.call

\* C4 as stated: a level returned by generate called without a seed carries
\* a non-null seed
C4_UnseededReturnsSeed ==
    (Returned /\ call.seed = NoSeed) => result.seed # NoSeed

InReduction == g.pc \in {"constraints", "cells", "validate"}

\* C5: from one reduction step to the next the numbers of kept constraints
\* and of kept clue cells never increase, and after every step the current
\* clue board with the current constraints is solved by solveLogically
C5_ReductionMonotoneSolvable ==
    /\ [](InReduction => solveLogically(g.puzzle, g.size, g.constraints).solved)
    /\ [][(InReduction /\ InReduction') =>
             /\ KeptConstraints(g'.constraints, g.size)
                   <= KeptConstraints(g.constraints, g.size)
             /\ KeptCells(g'.puzzle, g.size) <= KeptCells(g.puzzle, g.size)]_vars

\* the second pass has rolled a removal back: the cell before the current
\* index is still a clue although the targets are not reached
C5_Witness ==
    /\ g.pc = "cells"
    /\ g.i > 1
    /\ g.puzzle[g.cells[g.i - 1].r][g.cells[g.i - 1].c] # EMPTY
    /\ KeptCells(g.puzzle, g.size) < g.size * g.size

\* the targets of a difficulty for a board size
TargetConstraints(size, difficulty) ==
    CeilKeep(2 * size * (size - 1), difficultySettings(difficulty).constraintsKeep)

TargetCells(size, difficulty) ==
    CeilKeep(size * size, difficultySettings(difficulty).cellsKeep)

FillPosition(f) == Append(f.stack, f.try)

\* the lexicographic order of the positions
LexLess(p, q) ==
    \E i \in 1..Len(q) :
        /\ \A j \in 1..(i - 1) : j <= Len(p) /\ p[j] = q[j]
        /\ i > Len(p) \/ p[i] < q[i]

\* C12: for sizes 4 and 6 fillBoard, started on the empty board, ends and
\* returns true.  The failure branch of generate is never taken and no call
\* returns null; every step of the search moves to a greater position in
\* the lexicographic order of the sequences over 1..3 of length at most
\* size * size + 1, which is finite, so the search ends
C12_FillSucceeds ==
    /\ [](/\ g.pc # "failed"
          /\ g.fill.state # "fail"
          /\ (g.pc = "idle" /\ call # NoCall) => ~result.isNull)
    /\ [][g.pc = "fill" =>
            /\ g'.pc \in {"fill", "shuffle"}
            /\ g'.fill.state = "ok" \/
                  /\ LexLess(FillPosition(g.fill), FillPosition(g'.fill))
                  /\ Len(FillPosition(g'.fill)) <= g.size * g.size + 1
                  /\ \A i \in 1..Len(FillPosition(g'.fill)) :
                        FillPosition(g'.fill)[i] \in 1..3]_vars

\* fillBoard has returned true on the board of size 6
C12_Witness ==
    /\ g.pc = "shuffle"
    /\ g.size = 6
    /\ g.fill.state = "ok"
    /\ IsFull(g.fill.board, 6)

\* the symbol a constraint grid holds on the slot of a candidate
SlotSym(constraints, item) ==
    IF item.type = "h" THEN constraints.h[item.r][item.c]
    ELSE constraints.v[item.r][item.c]

TentativePuzzle == [g.puzzle EXCEPT ![g.cells[g.i].r][g.cells[g.i].c] = 0]

\* the constraint grids of the first pass with the current candidate cleared
TentativeConstraints == ClearConstraint(g.constraints, g.items[g.i])

\* C21: an iteration whose tentative removal makes solveLogically fail
\* leaves the constraint grids, the clue board, the kept counts and all the
\* rest of the reduction as they were, moving to the next candidate only;
\* an iteration whose removal is kept clears that one entry and nothing
\* else: the pieces the solver puts on its copy never reach the clue board
C21_RollbackExact ==
    /\ [][(g.pc = "cells" /\ g'.pc = "cells") =>
            IF solveLogically(TentativePuzzle, g.size, g.constraints).solved
            THEN g' = [g EXCEPT !.puzzle = TentativePuzzle,
                                !.currentCells = @ - 1, !.i = @ + 1]
            ELSE g' = [g EXCEPT !.i = @ + 1]]_vars
    /\ [][(g.pc = "constraints" /\ g'.pc = "constraints") =>
            IF solveLogically(g.puzzle, g.size, TentativeConstraints).solved
            THEN g' = [g EXCEPT !.constraints = TentativeConstraints,
                                !.currentConstraints = @ - 1, !.i = @ + 1]
            ELSE g' = [g EXCEPT !.i = @ + 1]]_vars
    /\ [](g.pc \in {"constraints", "cells"} =>
            /\ g.currentCells = KeptCells(g.puzzle, g.size)
            /\ g.currentConstraints = KeptConstraints(g.constraints, g.size))

\* the second pass of a 6x6 level has rolled back the removal of the cell
\* before the current one, after having kept others
C21_Witness ==
    /\ g.pc = "cells"
    /\ g.size = 6
    /\ g.i > 2
    /\ g.puzzle[g.cells[g.i - 1].r][g.cells[g.i - 1].c] = 
          g.solution[g.cells[g.i - 1].r][g.cells[g.i - 1].c]
    /\ g.currentCells < g.size * g.size

\* C22: while the first pass runs the clue board is the full solution, and
\* its steps leave the clue board alone; from the end of the first pass to
\* the return no step changes the constraint grids, and the level returned
\* has the grids the second pass tested its cells against
C22_StrictlyPhased ==
    /\ [](g.pc = "constraints" =>
            /\ g.puzzle = g.solution
            /\ KeptCells(g.puzzle, g.size) = g.size * g.size)
    /\ [][g.pc = "constraints" => g'.puzzle = g.puzzle]_vars
    /\ [][(g.pc \in {"cells", "validate"} /\ g'.pc \in {"cells", "validate"})
            => g'.constraints = g.constraints]_vars
    /\ [][(g.pc = "validate" /\ g'.pc = "idle" /\ ~result'.isNull)
            => result'.constraints = g.constraints]_vars

\* the second pass of a 4x4 level has cleared cells under the constraints
\* the first pass left
C22_Witness ==
    /\ g.pc = "cells"
    /\ g.size = 4
    /\ g.i > 2
    /\ KeptCells(g.puzzle, 4) < 15
    /\ KeptConstraints(g.constraints, 4) = g.targetConstraints

\* every element of seq occurs exactly once in perm, which is as long
IsPermutation(perm, seq) ==
    /\ Len(perm) = Len(seq)
    /\ \A k \in 1..Len(seq) :
          Cardinality({n \in 1..Len(perm) : perm[n] = seq[k]}) = 1

\* the candidates shuffle has been given an order for
Shuffled == g.pc \in {"constraints", "cells", "validate"}

\* C23: the value the random source draws next gives, for every length of
\* a list modelled, a swap index j with 0 <= j <= i; the shuffled lists hold
\* every constraint slot and every cell exactly once and do not change during
\* the reduction; a pass moves from each candidate to the next one, and the
\* candidates it has not come to yet still hold their entry
C23_CandidatesOnce ==
    /\ [](\E d \in {random([rng |-> rng, math |-> mathRandom])} :
             \A size \in Sizes : \A i \in 1..(2 * size * (size - 1) - 1) :
                 FloorMul(d.value, i + 1) \in 0..i)
    /\ [](Shuffled =>
            /\ IsPermutation(g.items, ConstraintItems(g.size))
            /\ IsPermutation(g.cells, CellItems(g.size)))
    /\ [](g.pc = "constraints" =>
            \A k \in g.i..Len(g.items) : SlotSym(g.constraints, g.items[k]) # NONE)
    /\ [](g.pc = "cells" =>
            \A k \in g.i..Len(g.cells) : g.puzzle[g.cells[k].r][g.cells[k].c] # 0)
    /\ [][(Shuffled /\ Shuffled') =>
            /\ g'.items = g.items /\ g'.cells = g.cells
            /\ g'.pc = g.pc => g'.i = g.i + 1]_vars

\* a 6x6 level whose lists are both out of their initial order is being
\* reduced, past the first candidates
C23_Witness ==
    /\ g.pc = "cells"
    /\ g.size = 6
    /\ g.i > 3
    /\ g.items # ConstraintItems(6)
    /\ g.cells # CellItems(6)
    /\ g.cells[1] # CellItems(6)[1]

\* the symbol that relates the two solution cells of the slot of a candidate
RelationOf(solution, item) ==
    IF item.type = "h"
    THEN IF solution[item.r][item.c] = solution[item.r][item.c + 1]
         THEN EQUAL ELSE CROSS
    ELSE IF solution[item.r][item.c] = solution[item.r + 1][item.c]
         THEN EQUAL ELSE CROSS

\* board and constraints hold, wherever they hold anything, the piece of
\* the solution and the symbol relating the solution's cells
AgreesWith(board, constraints, solution, size) ==
    /\ \A q \in Cells(size) :
          board[q[1]][q[2]] \in {0, solution[q[1]][q[2]]}
    /\ \A k \in 1..Len(ConstraintItems(size)) :
          SlotSym(constraints, ConstraintItems(size)[k])
            \in {NONE, RelationOf(solution, ConstraintItems(size)[k])}

\* C24: in every returned level a non-empty cell of initialBoard holds the
\* piece of the solution and a constraint that is not None is '=' exactly
\* when the two solution cells are equal, 'x' otherwise; a reduction step
\* leaves each entry as it was or cleared, and the solution stays as built
\* up to the level returned
C24_CluesFromSolution ==
    /\ [](Returned =>
            AgreesWith(result.initialBoard, result.constraints,
                       result.solution, result.size))
    /\ [](InReduction => g.solution = g.fill.board)
    /\ [][(InReduction /\ InReduction') =>
            /\ g'.solution = g.solution
            /\ \A q \in Cells(g.size) :
                  g'.puzzle[q[1]][q[2]] \in {0, g.puzzle[q[1]][q[2]]}
            /\ \A k \in 1..Len(g.items) :
                  SlotSym(g'.constraints, g.items[k])
                    \in {NONE, SlotSym(g.constraints, g.items[k])}]_vars
    /\ [][(g.pc = "validate" /\ g'.pc = "idle" /\ ~result'.isNull) =>
            /\ result'.solution = g.solution
            /\ result'.initialBoard = g.puzzle]_vars

\* a returned 6x6 level keeps a clue of each piece and a constraint of each
\* symbol
C24_Witness ==
    /\ Returned
    /\ result.size = 6
    /\ \E q \in Cells(6) : result.initialBoard[q[1]][q[2]] = SUN
    /\ \E q \in Cells(6) : result.initialBoard[q[1]][q[2]] = MOON
    /\ \E k \in 1..Len(ConstraintItems(6)) :
          SlotSym(result.constraints, ConstraintItems(6)[k]) = EQUAL
    /\ \E k \in 1..Len(ConstraintItems(6)) :
          SlotSym(result.constraints, ConstraintItems(6)[k]) = CROSS

\* the clue cells of a board
Clues(board, size) == {q \in Cells(size) : board[q[1]][q[2]] # 0}

\* C25: a returned level that keeps more clue cells than its target, the
\* second pass having tried every cell, is locally minimal: with any single
\* clue cleared, solveLogically fails under the returned constraints
C25_LocallyMinimal ==
    (/\ Returned
     /\ KeptCells(result.initialBoard, result.size)
           > TargetCells(call.size, call.difficulty)) =>
        \A q \in Clues(result.initialBoard, result.size) :
            ~solveLogically([result.initialBoard EXCEPT ![q[1]][q[2]] = 0],
                            result.size, result.constraints).solved

\* a 6x6 level was returned with more clues than the target of its
\* difficulty
C25_Witness ==
    /\ Returned
    /\ result.size = 6
    /\ call.difficulty = "medium"
    /\ KeptCells(result.initialBoard, 6) > TargetCells(6, "medium")
    /\ solveLogically(result.initialBoard, 6, result.constraints).solved

\* the first pass is about to test its first candidate
BeforeReduction == g.pc = "constraints" /\ g.i = 1

\* C26: before the reduction h has N rows of N-1 entries and v has N-1 rows
\* of N entries, every entry is '=' when the two adjacent solution cells are
\* equal and 'x' when they differ, none is None, the total counted is
\* 2N(N-1), and the solution is the board fillBoard left
C26_DerivedMaximal ==
    BeforeReduction =>
        /\ DOMAIN g.constraints.h = 0..(g.size - 1)
        /\ \A r \in 0..(g.size - 1) : DOMAIN g.constraints.h[r] = 0..(g.size - 2)
        /\ DOMAIN g.constraints.v = 0..(g.size - 2)
        /\ \A r \in 0..(g.size - 2) : DOMAIN g.constraints.v[r] = 0..(g.size - 1)
        /\ \A r \in 0..(g.size - 1) : \A c \in 0..(g.size - 2) :
              /\ g.constraints.h[r][c] \in {EQUAL, CROSS}
              /\ g.constraints.h[r][c] = EQUAL
                    <=> g.solution[r][c] = g.solution[r][c + 1]
              /\ g.constraints.v[c][r] \in {EQUAL, CROSS}
              /\ g.constraints.v[c][r] = EQUAL
                    <=> g.solution[c][r] = g.solution[c + 1][r]
        /\ g.totalConstraints = 2 * g.size * (g.size - 1)
        /\ g.currentConstraints = 2 * g.size * (g.size - 1)
        /\ KeptConstraints(g.constraints, g.size) = 2 * g.size * (g.size - 1)
        /\ g.solution = g.fill.board
        /\ g.puzzle = g.solution
        /\ IsFull(g.solution, g.size)

\* the grids of a 6x6 solution have been derived and hold both symbols
C26_Witness ==
    /\ BeforeReduction
    /\ g.size = 6
    /\ \E r \in 0..5 : \E c \in 0..4 : g.constraints.h[r][c] = EQUAL
    /\ \E r \in 0..4 : \E c \in 0..5 : g.constraints.v[r][c] = CROSS

\* a step of fillBoard in a call without a seed
UnseededFill == g.pc = "fill" /\ call.seed = NoSeed

\* the step places a piece on the cell of the current call
Places == Len(g'.fill.stack) = Len(g.fill.stack) + 1

\* the piece the step has placed, and the index of that candidate
PlacedPiece ==
    g'.fill.board[Len(g.fill.stack) \div g.size][Len(g.fill.stack) % g.size]

PlacedIndex == g'.fill.stack[Len(g'.fill.stack)]

\* the candidate pair as shuffle would order it with the current source
ShuffledPair == shuffle(<<SUN, MOON>>, [rng |-> rng, math |-> mathRandom]).array

\* C27 as stated: in a call without a seed the candidates of a cell are
\* tried in the order shuffle gives the pair with the random source
C27_UnseededShufflesPair ==
    [][(UnseededFill /\ Places) => PlacedPiece = ShuffledPair[PlacedIndex]]_vars

\* C27, amended: in a call without a seed the candidates of a cell are tried
\* in the order of the parity rule, sun first on cells of even index and
\* moon first on cells of odd index, and the search draws nothing from the
\* random source
C27_UnseededUsesParity ==
    [][UnseededFill =>
          /\ rng' = rng
          /\ mathRandom' = mathRandom
          /\ Places =>
                PlacedPiece = IF (Len(g.fill.stack) % 2 = 0) = (PlacedIndex = 1)
                              THEN SUN ELSE MOON]_vars

\* the search of a call without a seed has placed pieces, the last one as
\* first candidate, where shuffle would have tried the other piece first
C27_Witness ==
    /\ UnseededFill
    /\ Len(g.fill.stack) >= 2
    /\ g.fill.stack[Len(g.fill.stack)] = 1
    /\ g.fill.board[(Len(g.fill.stack) - 1) \div g.size]
                   [(Len(g.fill.stack) - 1) % g.size] # ShuffledPair[1]

\* C28: levels returned for one size have the same solution board, whatever
\* the seed and the difficulty, with or without a seed; during a later call
\* the solution built is the one of the level kept
C28_SolutionBySizeOnly ==
    /\ (Returned /\ ref.later /\ call.size = ref.call.size) =>
          result.solution = ref.level.solution
    /\ (InReduction /\ ref.later /\ call.size = ref.call.size) =>
          g.solution = ref.level.solution

\* a call without a seed has returned after a level of another difficulty
\* was kept, with other clue cells
C28_Witness ==
    /\ Returned
    /\ ref.later
    /\ call.size = ref.call.size
    /\ call.seed = NoSeed
    /\ call.difficulty # ref.call.difficulty
    /\ result.initialBoard # ref.level.initialBoard

\* the solution board the first LevelGenerator class builds for a size: its
\* fillBoard draws nothing, so any seed and difficulty give it
CanonicalSolution(size) ==
    generateFromSeed(size, <<98>>, "medium", 0).level.solution

CanonicalSolutions == [size \in SimpleSizes |-> CanonicalSolution(size)]

\* every row and column of a full board is balanced without three in a row
LinesOk(board, size) ==
    /\ \A r \in 0..(size - 1) : LineOk(board[r], size)
    /\ \A c \in 0..(size - 1) : LineOk(Column(board, size, c), size)

\* C30 as stated: every solution the second LevelGenerator class returns is
\* balanced, has no three equal consecutive pieces and has pairwise distinct
\* rows, and every level it returns is one the first class returns for some
\* seed and difficulty, so its solution is the one the first class builds
\* for the size
C30_SimpleIsSubset ==
    Returned =>
        /\ LinesOk(result.solution, result.size)
        /\ DistinctRows(result.solution, result.size, result.size)
        /\ result.solution = CanonicalSolutions[result.size]

\* C30: every solution the second LevelGenerator class returns is balanced
\* and has no three equal consecutive pieces in any row or column, and every
\* level it returns takes its clues and constraints from that solution and
\* is solved to it by the deduction engine; its rows need not be pairwise
\* distinct and the level need not be one of the first class
C30_SimpleLevelsWellFormed ==
    Returned =>
        /\ LinesOk(result.solution, result.size)
        /\ AgreesWith(result.initialBoard, result.constraints,
                      result.solution, result.size)
        /\ \E out \in {solveLogically(result.initialBoard, result.size,
                                       result.constraints)} :
               out.solved /\ out.board = result.solution

\* the second class has returned a 6x6 level whose solution has two equal
\* rows and differs from the solution of the first class, with clues removed
C30_Witness ==
    /\ Returned
    /\ result.size = 6
    /\ ~DistinctRows(result.solution, 6, 6)
    /\ result.solution # CanonicalSolutions[6]
    /\ result.initialBoard # result.solution

\* the cell of index k in row-major order on the board being filled
FillCell(f, k) == f.board[k \div g.size][k % g.size]

\* the current call of fillBoard is about to return false
ReturnsFalse == g.pc = "fill" /\ g.fill.try > 2 /\ Len(g.fill.stack) > 0

\* C29: while fillBoard runs, the cells before the one of the current call
\* hold the pieces placed by the calls above it and every other cell is
\* empty, so that a call returning false leaves the board as it found it;
\* a step changes no cell before those of the current call and its caller,
\* and the return of false changes the cell of the caller only, clearing it
C29_BacktrackRestores ==
    /\ [](g.pc = "fill" =>
            \A k \in 0..(g.size * g.size - 1) :
                IF k < Len(g.fill.stack)
                THEN FillCell(g.fill, k) \in {SUN, MOON}
                ELSE FillCell(g.fill, k) = EMPTY)
    /\ [][g.pc = "fill" =>
            \A k \in 0..(g.size * g.size - 1) :
                (k < Len(g.fill.stack) /\ k < Len(g'.fill.stack))
                    => FillCell(g'.fill, k) = FillCell(g.fill, k)]_vars
    /\ [][ReturnsFalse =>
            /\ Len(g'.fill.stack) = Len(g.fill.stack) - 1
            /\ \A k \in 0..(g.size * g.size - 1) :
                  FillCell(g'.fill, k) =
                      IF k = Len(g.fill.stack) - 1 THEN EMPTY
                      ELSE FillCell(g.fill, k)]_vars

\* a call of fillBoard on the 6x6 board is about to return false, past the
\* first row
C29_Witness ==
    /\ ReturnsFalse
    /\ g.size = 6
    /\ Len(g.fill.stack) > 6

(***************************************************************************)
(* Properties of the deduction engine                                      *)
(***************************************************************************)
\* the engine is at work on an array
Solving == g.pc = "solve"

\* every filled cell of the array holds the piece of the solution
Consistent == Wrong(g.puzzle, g.solution, g.size) = {}

\* applying any available forced move leaves every other available forced
\* move available, and two moves for one cell assign the same piece
MovesCommute(board, size, constraints) ==
    \A m \in ForcedMoves(board, size, constraints) :
        \A n \in ForcedMoves(board, size, constraints) :
            IF n.r = m.r /\ n.c = m.c
            THEN n.val = m.val
            ELSE n \in ForcedMoves(ApplyMove(board, m), size, constraints)

\* no forced move is left: the array is at a fixpoint
AtFixpoint == Solving /\ ForcedMoves(g.puzzle, g.size, g.constraints) = {}

\* the fixpoint is the board solveLogically leaves for the same puzzle
SameFixpoint ==
    g.puzzle = solveLogically(result.initialBoard, result.size, result.constraints).board

\* C13 as stated: on every board given to the engine, applying an available
\* forced move never removes another one nor changes the piece it assigns
C13_AnyBoardConfluent ==
    Solving => MovesCommute(g.puzzle, g.size, g.constraints)

\* C13, amended: on every board whose filled cells agree with the solution
\* of a generated level, under constraints derived from that solution,
\* applying an available forced move never removes another one nor changes
\* the piece it assigns, and every order of application ends on the board
\* solveLogically reaches
C13_ConsistentBoardConfluent ==
    (Solving /\ Consistent) =>
        /\ MovesCommute(g.puzzle, g.size, g.constraints)
        /\ AtFixpoint => SameFixpoint

\* a consistent board with forced moves for two different cells
C13_Witness ==
    /\ Solving
    /\ Consistent
    /\ \E m \in ForcedMoves(g.puzzle, g.size, g.constraints) :
          \E n \in ForcedMoves(g.puzzle, g.size, g.constraints) :
              (n.r # m.r \/ n.c # m.c)
              /\ m # findLogicalMove(g.puzzle, g.size, g.constraints)
              /\ n # findLogicalMove(g.puzzle, g.size, g.constraints)

\* the cells of a board that hold a piece
Filled(board, size) == {q \in Cells(size) : board[q[1]][q[2]] # 0}

\* level b is level a with clues or constraint symbols cleared
ClearedFrom(a, b) ==
    /\ ~a.isNull /\ ~b.isNull
    /\ b.size = a.size /\ b.solution = a.solution
    /\ \A q \in Cells(a.size) :
          b.initialBoard[q[1]][q[2]] \in {0, a.initialBoard[q[1]][q[2]]}
    /\ \A r \in 0..(a.size - 1) : \A c \in 0..(a.size - 2) :
          /\ b.constraints.h[r][c] \in {NONE, a.constraints.h[r][c]}
          /\ b.constraints.v[c][r] \in {NONE, a.constraints.v[c][r]}

\* the cells filled on the board solveLogically leaves for a level
FixpointFilled(level) ==
    Filled(solveLogically(level.initialBoard, level.size, level.constraints).board,
           level.size)

\* C14: on boards agreeing with the solution of a generated level, under a
\* subset of its derived constraints, every order of applying forced moves
\* ends on the same board, and clearing clues or constraints of the puzzle
\* never adds a cell to those filled at the fixpoint
C14_FixpointMonotone ==
    /\ []((AtFixpoint /\ Consistent) => SameFixpoint)
    /\ [][(/\ g.pc = "idle" /\ g'.pc = "idle"
            /\ ~result.isNull
            /\ Wrong(result.initialBoard, result.solution, result.size) = {}
            /\ ClearedFrom(result, result'))
           => FixpointFilled(result') \subseteq FixpointFilled(result)]_vars

\* solveLogically has returned false for a puzzle from which clues or
\* constraints of the generated level were cleared
C14_Witness ==
    /\ g.pc = "idle"
    /\ obs.name = "solveLogically" /\ ~obs.ret
    /\ ~result.isNull
    /\ Wrong(result.initialBoard, result.solution, result.size) = {}
    /\ result # Generated(call.size, call.seed, call.difficulty).level
    /\ FixpointFilled(result) # Cells(result.size)

\* a Game holding the array and the constraints of the engine
GameOn(board, size, constraints) ==
    [NewGame(size, "medium") EXCEPT !.board = board, !.constraints = constraints]

\* move is no move, or it targets an empty cell of board and assigns the
\* piece solution holds there
Sound(move, board, solution) ==
    \/ move = NoMove
    \/ /\ board[move.r][move.c] = 0
       /\ move.val \in {1, 2}
       /\ move.val = solution[move.r][move.c]

\* C15: on a board whose filled cells agree with the solution, the move of
\* LevelGenerator.findLogicalMove, the move of Game.findLogicalMove and every
\* forced move target an empty cell and assign the piece of the solution
C15_ForcedMovesSound ==
    (Solving /\ Consistent) =>
        /\ Sound(findLogicalMove(g.puzzle, g.size, g.constraints),
                 g.puzzle, g.solution)
        /\ Sound(Game_findLogicalMove(GameOn(g.puzzle, g.size, g.constraints)),
                 g.puzzle, g.solution)
        /\ \A m \in ForcedMoves(g.puzzle, g.size, g.constraints) :
              Sound(m, g.puzzle, g.solution)

\* a consistent board on which a move was applied and both functions
\* return another one
C15_Witness ==
    /\ Solving
    /\ Consistent
    /\ g.puzzle # result.initialBoard
    /\ findLogicalMove(g.puzzle, g.size, g.constraints) # NoMove
    /\ Game_findLogicalMove(GameOn(g.puzzle, g.size, g.constraints)) # NoMove

\* the position of the cell of a move in row-major order
CellIndex(move, size) == move.r * size + move.c

\* the moves of the loop nests of findLogicalMove, in the order of the code
MoveClasses(board, size, constraints) ==
    <<RunMoves(board, size),
      HConstraintMoves(board, size, constraints),
      VConstraintMoves(board, size, constraints),
      RowBalanceMoves(board, size),
      ColBalanceMoves(board, size)>>

\* the move findLogicalMove returns for the array of the engine
EngineMove == findLogicalMove(g.puzzle, g.size, g.constraints)

\* C18 as stated: the move returned is for the first empty cell in
\* row-major order that has a forced move of any rule class
C18_FirstForcedCell ==
    (Solving /\ EngineMove # NoMove) =>
        \A m \in ForcedMoves(g.puzzle, g.size, g.constraints) :
            CellIndex(EngineMove, g.size) <= CellIndex(m, g.size)

\* C18, amended: the rule classes are scanned one after the other over the
\* whole board; the move returned belongs to the first class, in the order
\* runs, horizontal constraints, vertical constraints, rows, columns, that
\* has a move anywhere on the board, and among the runs, the rows and the
\* columns it is the first one; no move is returned when no class has one
C18_FirstClassWithMove ==
    Solving =>
        \E classes \in {MoveClasses(g.puzzle, g.size, g.constraints)} :
            IF \A i \in 1..5 : classes[i] = {}
            THEN EngineMove = NoMove
            ELSE \E i \in 1..5 :
                    /\ \A j \in 1..(i - 1) : classes[j] = {}
                    /\ EngineMove \in classes[i]
                    /\ i = 1 => \A m \in classes[1] :
                          CellIndex(EngineMove, g.size) <= CellIndex(m, g.size)
                    /\ i = 4 => \A m \in classes[4] : EngineMove.r <= m.r
                    /\ i = 5 => \A m \in classes[5] : EngineMove.c <= m.c

\* the engine returns a move although a rule of a later class forces a cell
\* that comes earlier in row-major order
C18_Witness ==
    /\ Solving
    /\ g.puzzle # result.initialBoard
    /\ EngineMove # NoMove
    /\ \E m \in ForcedMoves(g.puzzle, g.size, g.constraints) :
          CellIndex(m, g.size) < CellIndex(EngineMove, g.size)

\* board b is board a with pieces put on empty cells
Extends(a, b, size) ==
    \A q \in Cells(size) : a[q[1]][q[2]] # 0 => b[q[1]][q[2]] = a[q[1]][q[2]]

\* C19: solveLogically terminates.  A move of findLogicalMove puts a sun or
\* a moon on an empty cell; the loop of solveLogically has exited after at
\* most as many moves as the board had empty cells, leaving every piece of
\* the board given in place; the value returned is true exactly when the
\* board it leaves, on which findLogicalMove returns no move, has no empty
\* cell; each step of the engine fills one empty cell and changes no other
C19_SolveTerminates ==
    /\ [](Solving =>
            \/ EngineMove = NoMove
            \/ /\ g.puzzle[EngineMove.r][EngineMove.c] = 0
               /\ EngineMove.val \in {1, 2})
    /\ []((g.pc = "idle" /\ ~result.isNull) =>
            \E out \in {solveLogically(result.initialBoard, result.size,
                                        result.constraints)} :
                /\ out.exited
                /\ ~SolveLoop([board |-> result.initialBoard, changed |-> TRUE],
                              result.size, result.constraints,
                              Cardinality(Cells(result.size)
                                          \ Filled(result.initialBoard, result.size))
                              + 1).changed
                /\ Extends(result.initialBoard, out.board, result.size)
                /\ findLogicalMove(out.board, result.size, result.constraints) = NoMove
                /\ out.solved = (Filled(out.board, result.size) = Cells(result.size)))
    /\ [][(Solving /\ g'.pc = "solve") =>
            \E q \in Cells(g.size) :
                /\ g.puzzle[q[1]][q[2]] = 0
                /\ g'.puzzle[q[1]][q[2]] \in {1, 2}
                /\ \A p \in Cells(g.size) \ {q} :
                      g'.puzzle[p[1]][p[2]] = g.puzzle[p[1]][p[2]]]_vars

\* solveLogically has returned false after moves were applied
C19_Witness ==
    /\ g.pc = "idle"
    /\ ~result.isNull
    /\ obs.name = "solveLogically" /\ ~obs.ret
    /\ ~solveLogically(result.initialBoard, result.size, result.constraints).solved
    /\ solveLogically(result.initialBoard, result.size, result.constraints).board
          # result.initialBoard

(***************************************************************************)
(* Properties of the game session                                          *)
(***************************************************************************)
\* C4, amended: a game started without level data gets a fresh seed of
\* eight characters from generateRandomSeed, generate is called with it and
\* returns it with the level; generate called again with that seed, size
\* and difficulty returns the same solution, initialBoard and constraints;
\* generate called without a seed returns its level with seed null
C4_FreshGameSeedReproduces ==
    /\ (g.pc = "idle" /\ obs.name = "startNewGame" /\ obs.kind = "null" /\ ~ref.later) =>
          /\ obs.ret
          /\ Len(game.seed) = 8
          /\ call.seed = game.seed
          /\ result.seed = game.seed
          /\ ref.call.seed = game.seed
          /\ ref.level.initialBoard = game.initialBoard
    /\ (Returned /\ ref.later /\ call = ref.call) =>
          /\ result.seed = ref.call.seed
          /\ result.solution = ref.level.solution
          /\ result.initialBoard = ref.level.initialBoard
          /\ result.constraints = ref.level.constraints
    /\ (Returned /\ call.seed = NoSeed) => result.seed = NoSeed

\* the level of a game started without level data has been generated again
\* from the seed of the game
C4_Witness ==
    /\ Returned
    /\ ref.later
    /\ call = ref.call
    /\ obs.kind = "null"
    /\ call.seed = game.seed
    /\ Len(game.seed) = 8

\* the game was started from a level that generate returned
FromGenerated == Started /\ game.seed # NoSeed

\* C11: in a game started from a generated level, on a board equal to the
\* solution of the level validateBoard returns no error and
\* checkWinCondition reports won = true
C11_SolutionWins ==
    (FromGenerated /\ game.solution = result.solution /\ game.board = game.solution) =>
        /\ obs.name = "validateBoard" => (obs.ret /\ obs.val = 0)
        /\ obs.name = "checkWinCondition" => (obs.ret /\ obs.val = 0 /\ obs.kind = "")

\* checkWinCondition has been called on the solved board of a generated level
C11_Witness ==
    /\ FromGenerated
    /\ game.board = result.solution
    /\ obs.name = "checkWinCondition"
    /\ obs.ret

\* C16: in a game started from a generated level, checkWinCondition reports
\* won = true only on a board equal to the solution of the level
C16_WinOnlyOnSolution ==
    (FromGenerated /\ obs.name = "checkWinCondition" /\ obs.ret) =>
        /\ game.board = game.solution
        /\ game.solution = result.solution

\* checkWinCondition has refused a full board that differs from the solution
C16_Witness ==
    /\ FromGenerated
    /\ obs.name = "checkWinCondition" /\ ~obs.ret
    /\ IsFull(game.board, game.size)
    /\ game.board # game.solution

\* C17: on every board of a game Game.findLogicalMove and
\* LevelGenerator.findLogicalMove return no move both, or the same cell and
\* the same piece
C17_SameMove ==
    Playing =>
        /\ Game_findLogicalMove(game)
              = findLogicalMove(game.board, game.size, game.constraints)
        /\ obs.name = "findLogicalMove" =>
              /\ obs.ret = (findLogicalMove(game.board, game.size, game.constraints) # NoMove)
              /\ obs.r = findLogicalMove(game.board, game.size, game.constraints).r
              /\ obs.c = findLogicalMove(game.board, game.size, game.constraints).c
              /\ obs.val = findLogicalMove(game.board, game.size, game.constraints).val

\* Game.findLogicalMove has returned a move on a board that holds a piece
\* the solution does not
C17_Witness ==
    /\ Playing
    /\ obs.name = "findLogicalMove" /\ obs.ret
    /\ Wrong(game.board, game.solution, game.size) # {}

IsClue(r, c) == game.initialBoard[r][c] # EMPTY

\* C7: setCell and cycleCell on a clue cell return false and leave the
\* board and the undo history as they are
C7_ClueWriteRefused ==
    [][(obs'.name \in {"setCell", "cycleCell"} /\ IsClue(obs'.r, obs'.c)) =>
          /\ obs'.ret = FALSE
          /\ game'.board = game.board
          /\ game'.history = game.history]_vars

\* cycleCell was refused on a clue cell of a game with moves to undo
C7_Witness ==
    /\ Playing
    /\ obs.name = "cycleCell"
    /\ IsClue(obs.r, obs.c)
    /\ ~obs.ret
    /\ Len(game.history) > 0

\* C8: in every state of a started game every clue cell holds its
\* initialBoard value on the board, and setCell, cycleCell, undo and getHint
\* leave initialBoard as it is
C8_CluesFixed ==
    /\ [](Started =>
            \A p \in Cells(game.size) :
               IsClue(p[1], p[2]) => game.board[p[1]][p[2]] = game.initialBoard[p[1]][p[2]])
    /\ [][obs'.name \in {"setCell", "cycleCell", "undo", "getHint"} =>
             game'.initialBoard = game.initialBoard]_vars

\* a hint has been written on the board of a game that has clue cells,
\* after an earlier write
C8_Witness ==
    /\ Playing
    /\ obs.name = "getHint"
    /\ obs.ret
    /\ Len(game.history) > 1
    /\ \E p \in Cells(game.size) : IsClue(p[1], p[2])

\* C9: cycleCell on a non-clue cell returns true and moves that cell from
\* Empty to A, from A to B and from B to Empty, leaving the other cells as
\* they are; after three calls in a row on the cell the board is the one
\* before the first of them
C9_CycleThrice ==
    /\ [][(obs'.name = "cycleCell" /\ ~IsClue(obs'.r, obs'.c)) =>
             /\ obs'.ret = TRUE
             /\ game'.board[obs'.r][obs'.c] = (game.board[obs'.r][obs'.c] + 1) % 3
             /\ \A p \in Cells(game.size) :
                   p # <<obs'.r, obs'.c>> => game'.board[p[1]][p[2]] = game.board[p[1]][p[2]]]_vars
    /\ [](obs.run = 3 => game.board = obs.shadow[Len(obs.shadow) - 2])

\* cycleCell has been called three times in a row on a free cell
C9_Witness ==
    /\ obs.name = "cycleCell"
    /\ obs.run = 3
    /\ ~IsClue(obs.r, obs.c)

\* C10: undo with writes pending returns true and restores the board
\* before the latest write not yet undone (a successful setCell, cycleCell
\* or getHint), so that n undos after n writes restore the boards in
\* reverse order; undo with an empty history returns false and changes
\* nothing
C10_UndoRestores ==
    [][obs'.name = "undo" =>
          /\ obs.shadow # <<>> =>
                /\ obs'.ret = TRUE
                /\ game'.board = obs.shadow[Len(obs.shadow)]
          /\ game.history = <<>> =>
                /\ obs'.ret = FALSE
                /\ game' = game]_vars

\* two undos in a row have succeeded and a write is still pending
C10_Witness ==
    /\ obs.name = "undo"
    /\ obs.ret
    /\ obs.shadow # <<>>
    /\ game.board # game.initialBoard

\* getHint called again and again, at most n times, until it returns null:
\* the game reached and the number of hints returned
RECURSIVE HintRun(_, _, _)
HintRun(gm, math, n) ==
    IF n = 0 THEN [game |-> gm, hints |-> 0]
    ELSE Bind(LAMBDA res :
                IF res.hint = NoMove THEN [game |-> gm, hints |-> 0]
                ELSE Bind(LAMBDA rest : [rest EXCEPT !.hints = @ + 1],
                          HintRun(res.game, res.math, n - 1)),
              Game_getHint(gm, math))

\* the cells on which two boards differ
Changed(before, after, size) ==
    {p \in Cells(size) : before[p[1]][p[2]] # after[p[1]][p[2]]}

\* a game on a generated level is being played
PlayingGenerated == Playing /\ game.seed # NoSeed

\* ... and at most two writes are pending on the board of the level
FewWrites == PlayingGenerated /\ Len(game.history) <= 2

\* twice the empty cells plus the wrong pieces of a board: at most 2 * N * N,
\* and 0 exactly on the solution
HintsLeft(board, solution, size) ==
    2 * Cardinality({p \in Cells(size) : board[p[1]][p[2]] = EMPTY})
      + Cardinality({p \in Cells(size) :
                       board[p[1]][p[2]] \notin {EMPTY, solution[p[1]][p[2]]}})

\* C31: in a game on a generated level every getHint call that returns a
\* hint changes exactly one cell, which is not a clue, and lowers HintsLeft,
\* and getHint returns null exactly when the board equals the solution, so
\* that getHint calls alone bring the board to the solution within
\* 2 * N * N calls; run from every board with at most two writes pending,
\* they do
C31_HintsReachSolution ==
    /\ [](FewWrites =>
            HintRun(game, mathRandom, 2 * game.size * game.size).game.board
               = game.solution)
    /\ [][(obs'.name = "getHint" /\ game.seed # NoSeed) =>
             /\ obs'.ret = (game.board # game.solution)
             /\ obs'.ret =>
                   /\ Cardinality(Changed(game.board, game'.board, game.size)) = 1
                   /\ \A p \in Changed(game.board, game'.board, game.size) :
                         ~IsClue(p[1], p[2])
                   /\ HintsLeft(game'.board, game.solution, game.size)
                         < HintsLeft(game.board, game.solution, game.size)]_vars

\* the player has put a wrong piece on the board of a generated level, so
\* that the hints to come are more than the empty cells: the last of them
\* replace wrong pieces on the full board
C31_Witness ==
    /\ FewWrites
    /\ obs.name \in {"setCell", "cycleCell"}
    /\ obs.ret
    /\ \E p \in Cells(game.size) :
          game.board[p[1]][p[2]] \notin {EMPTY, game.solution[p[1]][p[2]]}
    /\ HintRun(game, mathRandom, 2 * game.size * game.size).hints
          > Cardinality({p \in Cells(game.size) : game.board[p[1]][p[2]] = EMPTY})

(***************************************************************************)
(* Properties of the solve history and of the user interface               *)
(***************************************************************************)
\* the entries of the stored history
StoredSolves == getAllSolves(browser.storage)

BoardWon == obs.ret /\ Game_checkWinCondition(game).won

\* in this step the timer is stopped and the solve is saved in front of the
\* history, with the seconds and the moves counted
WinHandled ==
    /\ ui'.timerInterval \notin browser'.intervals
    /\ browser'.storage.set
    /\ Len(getAllSolves(browser'.storage)) > 0
    /\ \E entry \in {getAllSolves(browser'.storage)[1]} :
          /\ entry.timestamp = browser.now
          /\ entry.size = game'.size
          /\ entry.seed = game'.seed
          /\ entry.timeSeconds = ui.seconds
          /\ entry.moveCount = ui'.moveCount
    /\ SubSeq(getAllSolves(browser'.storage), 2,
              Len(getAllSolves(browser'.storage)))
          = getAllSolves(browser.storage)

\* C32 as stated: a cell click, a key or a hint that leaves the board full
\* and free of rule violations has the timer stopped and the solve saved in
\* the same event
C32_WinHandledInEvent ==
    [][(obs'.name \in {"click", "keydown", "hint"} /\ BoardWon') => WinHandled]_vars

\* C32: a cell click or a key that changes the board and leaves it full and
\* free of rule violations has the timer stopped and the solve saved in the
\* same event; the hint button changes the game only: a hint that completes
\* the board leaves the timer, the move count and the history as they are
C32_MovesHandleWin ==
    [][/\ (obs'.name \in {"click", "keydown"} /\ BoardWon') => WinHandled
       /\ obs'.name = "hint" =>
             /\ ui' = ui
             /\ browser' = browser]_vars

\* a key has completed the board after hints, and the solve is saved
C32_Witness ==
    /\ obs.name = "keydown"
    /\ BoardWon
    /\ Len(game.history) >= 2
    /\ ui.timerInterval \notin browser.intervals
    /\ Len(StoredSolves) = 1
    /\ StoredSolves[1].moveCount = ui.moveCount

\* C33 as stated: between two startNewGame calls at most one solve entry is
\* saved
C33_OneSolvePerGame == browser.loaded => obs.run <= 1

\* C33: between two startNewGame calls one solve entry is saved for every
\* cell click or key that changes the board and leaves it full and free of
\* rule violations, so a second entry when the player wins again after an
\* undo; undos and hints save none, and no event saves two
C33_OneSolvePerWinningMove ==
    /\ [](browser.loaded => /\ obs.run = obs.val
                             /\ obs.run <= ui.moveCount)
    /\ [][/\ Len(getAllSolves(browser'.storage))
              <= Len(getAllSolves(browser.storage)) + 1
          /\ obs'.name \in {"undo", "hint", "tick"}
                => browser'.storage = browser.storage]_vars

\* the player has won, undone the last move and won again: two entries
C33_Witness ==
    /\ browser.loaded
    /\ obs.run = 2
    /\ Len(StoredSolves) = 2
    /\ StoredSolves[1].seed = StoredSolves[2].seed
    /\ BoardWon

\* the handler that ran last started a game
GameStarted == obs.name \in {"DOMContentLoaded", "startNewGame"}

\* C36: at most one timer interval is active at a time; after a win the
\* seconds counted do not change until the next startNewGame, which resets
\* them to 0 together with the move count and leaves one interval running
C36_OneTimerStoppedByWin ==
    /\ [](/\ Cardinality(browser.intervals) <= 1
          /\ browser.intervals \subseteq {ui.timerInterval})
    /\ [][/\ (browser.loaded /\ browser'.loaded /\ obs.run > 0 /\ ~GameStarted')
                => /\ ui'.seconds = ui.seconds
                   /\ browser'.intervals = {}
          /\ (obs'.name \in {"click", "keydown"} /\ BoardWon')
                => browser'.intervals = {}
          /\ GameStarted' => /\ ui'.seconds = 0
                              /\ ui'.moveCount = 0
                              /\ browser'.intervals = {ui'.timerInterval}]_vars

\* a new game started after a win whose timer had counted a second
C36_Witness ==
    /\ obs.name = "startNewGame"
    /\ Len(StoredSolves) > 0
    /\ StoredSolves[1].timeSeconds > 0
    /\ StoredSolves[1].moveCount > 0
    /\ ui.seconds = 0
    /\ ui.moveCount = 0
    /\ Cardinality(browser.intervals) = 1

\* the page has just been set up from a link the UI produced; ref keeps the
\* puzzle that was being played
Reloaded == obs.name = "DOMContentLoaded" /\ ref.later

\* the puzzle of the game is the one that was being played
SamePuzzle ==
    /\ game.size = ref.level.size
    /\ game.solution = ref.level.solution
    /\ game.initialBoard = ref.level.initialBoard
    /\ game.constraints = ref.level.constraints

\* the difficulty a link g=size:seed is loaded with (main.js 11, 24): the
\* parameter d of the link, medium without it
LinkDifficulty == IF browser.search.d # "" THEN browser.search.d ELSE "medium"

\* C34 as stated: a puzzle reloaded from the link the UI produces has the
\* solution, initialBoard and constraints of the puzzle that was being
\* played, for every difficulty of the session
C34_LinkReloadsSamePuzzle == Reloaded => SamePuzzle

\* C34: a puzzle reloaded from the link the UI produces has the solution,
\* initialBoard and constraints of the puzzle that was being played when
\* that puzzle was generated from a seed and its difficulty is the one the
\* link is loaded with (the parameter d kept in the link, medium without it)
C34_LinkReloadsSeededPuzzle ==
    (Reloaded /\ ref.call.seed # NoSeed /\ ref.call.difficulty = LinkDifficulty)
        => /\ SamePuzzle
           /\ game.seed = ref.call.seed
           /\ game.difficulty = ref.call.difficulty

\* a hard puzzle reloaded from the link of the share button
C34_Witness ==
    /\ Reloaded
    /\ ref.call.seed # NoSeed
    /\ ref.call.difficulty = "hard"
    /\ LinkDifficulty = "hard"
    /\ browser.search.g = <<game.size, game.seed>>
    /\ game.initialBoard = ref.level.initialBoard
    /\ game.initialBoard # game.solution

====
